---------------------------- MODULE Spec2Model ----------------------------
(***************************************************************************)
(* Flower shop API: the order handler, the flower CRUD handlers and the    *)
(* store they share, in its two variants (process memory, remote table).   *)
(*                                                                         *)
(* Text values the handlers inspect character by character (customer name, *)
(* email, phone, address, payment method) are sequences of one-character   *)
(* strings.  Money is in cents, so price * quantity rounded to 2 decimals  *)
(* is the integer product.                                                 *)
(***************************************************************************)
EXTENDS Integers, Sequences, FiniteSets, TLC

VARIABLES
    flowers,    \* store.flowers / table "flowers": sequence of flower records
    orders,     \* store.orders / tables "orders" + "order_items"
    pc,         \* per request slot: where its createOrder handler is suspended
    loc,        \* per request slot: the handler's local variables (remote variant)
    last,       \* the last response written with json(res, status, payload)
    overlapped, \* history: two createOrder handlers were suspended at the same time
    chat,       \* the chat handler: its position, its request, its answer
    nextId,     \* number of ids drawn from createId so far
    orderReqs,  \* number of POST /orders requests received so far
    adminOps,   \* number of admin write requests received so far
    now,        \* Math.floor(Date.now() / 1000)
    ticks,      \* number of clock advances so far
    issued,     \* the session tokens setSessionCookie has handed out
    authConfigured, \* isAuthConfigured(): accounts and secret set in the environment
    users,      \* store.users: the customers registered by signup
    loggedOut,  \* history: the tokens that had been handed out when a logout was answered
    notifications,  \* store.notifications
    settings,   \* store.settings
    disk,       \* the Express server: its data file, its write queue, its requests
    client      \* the browser client: displayed flowers, cart, pending order

\* The session mechanism's state and the site content besides the catalog
authVars == <<now, ticks, issued, authConfigured, users, loggedOut>>
siteVars == <<notifications, settings>>

vars == <<flowers, orders, pc, loc, last, overlapped, nextId, orderReqs, adminOps,
          authVars, siteVars, chat, disk, client>>

---------------------------------------------------------------------------
\* Bounds of the model

MaxOrderRequests == 2
MaxItems == 2
MaxRequests == 2
MaxAdminOps == 1
\* A DELETE /flowers may still follow when the admin requests are used up, up
\* to this many admin requests in all
MaxDeletes == 2

Requests == 1..MaxRequests

---------------------------------------------------------------------------
\* Program constants

MAX_STOCK == 10000
MaxItemQuantity == 100
PhoneMinLen == 7
PhoneMaxLen == 24
PhoneMinDigits == 7
PhoneMaxDigits == 15
NameMinLen == 2
NameMaxLen == 120
AddressMinLen == 6
AddressMaxLen == 240

---------------------------------------------------------------------------
\* Text helpers: String.prototype.trim / toLowerCase on character sequences

Digits == {"0", "1", "2", "3", "4", "5", "6", "7", "8", "9"}
Whitespace == {" "}
UpperCase == <<"A","B","C","D","E","F","G","H","I","J","K","L","M",
               "N","O","P","Q","R","S","T","U","V","W","X","Y","Z">>
LowerCase == <<"a","b","c","d","e","f","g","h","i","j","k","l","m",
               "n","o","p","q","r","s","t","u","v","w","x","y","z">>

RECURSIVE TrimLeft(_)
TrimLeft(s) ==
    IF s # <<>> /\ Head(s) \in Whitespace THEN TrimLeft(Tail(s)) ELSE s

RECURSIVE TrimRight(_)
TrimRight(s) ==
    IF s # <<>> /\ s[Len(s)] \in Whitespace
    THEN TrimRight(SubSeq(s, 1, Len(s) - 1))
    ELSE s

Trim(s) == TrimRight(TrimLeft(s))

ToLowerChar(c) ==
    IF \E i \in 1..26 : UpperCase[i] = c
    THEN LowerCase[CHOOSE i \in 1..26 : UpperCase[i] = c]
    ELSE c

ToLowerCase(s) == [i \in 1..Len(s) |-> ToLowerChar(s[i])]

CountIn(s, set) == Cardinality({i \in 1..Len(s) : s[i] \in set})

---------------------------------------------------------------------------
\* Text literals, as character sequences

\* "Crimson Rose Bouquet"
NAME_ROSE ==
    <<"C","r","i","m","s","o","n"," ","R","o","s","e"," ","B","o","u","q","u","e","t">>
\* "Sunshine Tulip Mix"
NAME_TULIP ==
    <<"S","u","n","s","h","i","n","e"," ","T","u","l","i","p"," ","M","i","x">>
\* "Pure White Lily Vase"
NAME_LILY ==
    <<"P","u","r","e"," ","W","h","i","t","e"," ","L","i","l","y"," ","V","a","s","e">>
\* "Pastel Peony Bundle"
NAME_PEONY ==
    <<"P","a","s","t","e","l"," ","P","e","o","n","y"," ","B","u","n","d","l","e">>
\* "Ana"
TXT_ANA ==
    <<"A","n","a">>
\* " Ana "
TXT_ANA_PAD ==
    <<" ","A","n","a"," ">>
\* "A"
TXT_A ==
    <<"A">>
\* "ana@example.com"
TXT_EMAIL ==
    <<"a","n","a","@","e","x","a","m","p","l","e",".","c","o","m">>
\* " Ana@Example.com"
TXT_EMAIL_UP ==
    <<" ","A","n","a","@","E","x","a","m","p","l","e",".","c","o","m">>
\* "ana.example.com"
TXT_EMAIL_NOAT ==
    <<"a","n","a",".","e","x","a","m","p","l","e",".","c","o","m">>
\* "ana@example"
TXT_EMAIL_NODOT ==
    <<"a","n","a","@","e","x","a","m","p","l","e">>
\* "+1 303 555 1212"
TXT_PHONE ==
    <<"+","1"," ","3","0","3"," ","5","5","5"," ","1","2","1","2">>
\* " +1 303 555 1212 "
TXT_PHONE_PAD ==
    <<" ","+","1"," ","3","0","3"," ","5","5","5"," ","1","2","1","2"," ">>
\* "abc"
TXT_PHONE_ABC ==
    <<"a","b","c">>
\* "(12) --- --"
TXT_PHONE_FEW ==
    <<"(","1","2",")"," ","-","-","-"," ","-","-">>
\* "555121"
TXT_PHONE_SHORT ==
    <<"5","5","5","1","2","1">>
\* "1234567890123456"
TXT_PHONE_MANY ==
    <<"1","2","3","4","5","6","7","8","9","0","1","2","3","4","5","6">>
\* "123 Main Street"
TXT_ADDRESS ==
    <<"1","2","3"," ","M","a","i","n"," ","S","t","r","e","e","t">>
\* "12 St"
TXT_ADDRESS_SHORT ==
    <<"1","2"," ","S","t">>
\* " PayPal"
TXT_PAYPAL_MIXED ==
    <<" ","P","a","y","P","a","l">>
\* "bitcoin"
TXT_BITCOIN ==
    <<"b","i","t","c","o","i","n">>
\* "general"
OCC_GENERAL ==
    <<"g","e","n","e","r","a","l">>
\* "romance"
OCC_ROMANCE ==
    <<"r","o","m","a","n","c","e">>
\* "birthday"
OCC_BIRTHDAY ==
    <<"b","i","r","t","h","d","a","y">>
\* "wedding"
OCC_WEDDING ==
    <<"w","e","d","d","i","n","g">>
\* "thank-you"
OCC_THANKYOU ==
    <<"t","h","a","n","k","-","y","o","u">>
\* " Wedding"
TXT_WEDDING_MIXED ==
    <<" ","W","e","d","d","i","n","g">>
\* "funeral"
TXT_FUNERAL ==
    <<"f","u","n","e","r","a","l">>
\* "Sale", " Sale ", "   "
TXT_SALE == <<"S","a","l","e">>
TXT_SALE_PAD == <<" ","S","a","l","e"," ">>
TXT_BLANK == <<" "," "," ">>
\* "https://a.io/x.png", the same padded, the same with the scheme in capitals,
\* "ftp://a.io/x.png", "not a url"
TXT_URL == <<"h","t","t","p","s",":","/","/","a",".","i","o","/","x",".","p","n","g">>
TXT_URL_PAD == <<" ","h","t","t","p","s",":","/","/","a",".","i","o","/","x",".","p","n","g"," ">>
TXT_URL_UP == <<"H","T","T","P","S",":","/","/","a",".","i","o","/","x",".","p","n","g">>
TXT_URL_FTP == <<"f","t","p",":","/","/","a",".","i","o","/","x",".","p","n","g">>
TXT_NOT_URL == <<"n","o","t"," ","a"," ","u","r","l">>
\* "Orchid Pot"
TXT_ORCHID ==
    <<"O","r","c","h","i","d"," ","P","o","t">>
\* " X "
TXT_X ==
    <<" ","X"," ">>
\* "Scarlet Rose"
TXT_RENAMED ==
    <<"S","c","a","r","l","e","t"," ","R","o","s","e">>
\* " Paid"
TXT_PAID_MIXED ==
    <<" ","P","a","i","d">>
\* "refunded"
TXT_REFUNDED ==
    <<"r","e","f","u","n","d","e","d">>

---------------------------------------------------------------------------
\* Order payload validation

\* A function that returns null returns NULL, the empty text
NULL == <<>>

\* ALLOWED_PAYMENT_METHODS
CASH == <<"c","a","s","h">>
PAYPAL == <<"p","a","y","p","a","l">>
ALLOWED_PAYMENT_METHODS == {CASH, PAYPAL}

\* normalizePaymentMethod: String(value || "cash").trim().toLowerCase(),
\* null when not one of ALLOWED_PAYMENT_METHODS
normalizePaymentMethod(value) ==
    LET normalized == ToLowerCase(Trim(IF value = <<>> THEN CASH ELSE value))
    IN  IF normalized \in ALLOWED_PAYMENT_METHODS THEN normalized ELSE NULL

\* ALLOWED_PAYMENT_STATUSES
PENDING == <<"p","e","n","d","i","n","g">>
PAID == <<"p","a","i","d">>
FAILED == <<"f","a","i","l","e","d">>
ALLOWED_PAYMENT_STATUSES == {PENDING, PAID, FAILED}

\* Variant of normalizePaymentStatus that accepts any text
normalizePaymentStatus_AnyText(value) == ToLowerCase(Trim(value))

\* normalizePaymentStatus: String(value || "").trim().toLowerCase()
normalizePaymentStatus(value) ==
    LET normalized == ToLowerCase(Trim(value))
    IN  IF normalized \in ALLOWED_PAYMENT_STATUSES THEN normalized ELSE NULL

\* PHONE_REGEX = /^[0-9+\-\s()]{7,24}$/
PhoneChars == Digits \cup {"+", "-", "(", ")"} \cup Whitespace

PhoneRegexTest(s) ==
    /\ Len(s) >= PhoneMinLen
    /\ Len(s) <= PhoneMaxLen
    /\ \A i \in 1..Len(s) : s[i] \in PhoneChars

\* Variant of isValidPhoneNumber: the digit count is not checked
isValidPhoneNumber_RegexOnly(value) == PhoneRegexTest(Trim(value))

isValidPhoneNumber(value) ==
    LET normalized == Trim(value)
        digitCount == CountIn(normalized, Digits)
    IN  /\ PhoneRegexTest(normalized)
        /\ digitCount >= PhoneMinDigits
        /\ digitCount <= PhoneMaxDigits

\* EMAIL_REGEX = /^[^\s@]+@[^\s@]+\.[^\s@]+$/
EmailPart(s, from, to) ==
    /\ from <= to
    /\ \A i \in from..to : s[i] \notin (Whitespace \cup {"@"})

EmailRegexTest(s) ==
    \E at \in 1..Len(s) : \E dot \in 1..Len(s) :
        /\ s[at] = "@"
        /\ s[dot] = "."
        /\ at < dot
        /\ EmailPart(s, 1, at - 1)
        /\ EmailPart(s, at + 1, dot - 1)
        /\ EmailPart(s, dot + 1, Len(s))


\* validateOrderPayload: the customer checks, in the order the code makes them.
\* "" when the customer fields, the items array and the payment method pass.
CustomerError(body) ==
    LET customerName == Trim(body.customer.name)
        customerEmail == ToLowerCase(Trim(body.customer.email))
        customerPhone == Trim(body.customer.phone)
        customerAddress == Trim(body.customer.address)
    IN  IF ~body.hasCustomer THEN "customer details are required"
        ELSE IF Len(customerName) < NameMinLen \/ Len(customerName) > NameMaxLen
            THEN "customer.name must be between 2 and 120 characters"
        ELSE IF ~EmailRegexTest(customerEmail) THEN "customer.email is invalid"
        ELSE IF ~isValidPhoneNumber(customerPhone) THEN "customer.phone is invalid"
        ELSE IF Len(customerAddress) < AddressMinLen \/ Len(customerAddress) > AddressMaxLen
            THEN "customer.address must be between 6 and 240 characters"
        ELSE IF ~body.itemsIsArray \/ Len(body.items) = 0
            THEN "at least one cart item is required"
        ELSE IF normalizePaymentMethod(body.paymentMethod) = NULL
            THEN "paymentMethod must be cash or paypal"
        ELSE ""

\* normalizeCartItems: the per-item test that throws "invalid cart item payload"
CartItemInvalid(item) ==
    \/ item.flowerId = ""
    \/ item.quantity <= 0
    \/ item.quantity > MaxItemQuantity

\* normalizeCartItems: quantities.set(flowerId, (quantities.get(flowerId) || 0) + quantity);
\* a Map keeps the insertion order of its keys
RECURSIVE MergeQuantities(_, _)
MergeQuantities(items, acc) ==
    IF items = <<>> THEN acc
    ELSE LET item == Head(items)
             at == {j \in 1..Len(acc) : acc[j].flowerId = item.flowerId}
         IN  IF at = {}
             THEN MergeQuantities(Tail(items), Append(acc, item))
             ELSE LET j == CHOOSE k \in at : TRUE
                  IN  MergeQuantities(Tail(items),
                        [acc EXCEPT ![j].quantity = @ + item.quantity])

normalizeCartItems(items) == MergeQuantities(items, <<>>)

validateOrderPayload(body) ==
    LET err == CustomerError(body)
    IN  IF err # "" THEN [ok |-> FALSE, message |-> err]
        ELSE IF \E i \in 1..Len(body.items) : CartItemInvalid(body.items[i])
            THEN [ok |-> FALSE, message |-> "invalid cart item payload"]
        ELSE [ok |-> TRUE,
              message |-> "",
              customer |-> [name |-> Trim(body.customer.name),
                            email |-> ToLowerCase(Trim(body.customer.email)),
                            phone |-> Trim(body.customer.phone),
                            address |-> Trim(body.customer.address)],
              paymentMethod |-> normalizePaymentMethod(body.paymentMethod),
              paymentStatus |-> PENDING,
              items |-> normalizeCartItems(body.items)]

---------------------------------------------------------------------------
\* The store after construction (getStore: clone(seedFlowers), orders: [])

\* DEFAULT_HERO_IMAGE, up to its host: "https://images.unsplash.com"
DEFAULT_HERO_IMAGE ==
    <<"h","t","t","p","s",":","/","/","i","m","a","g","e","s",".","u","n","s","p","l","a","s","h",".","c","o","m">>

\* Descriptions and images of the seed flowers
DESC_ROSE ==
    <<"H","a","n","d","-","t","i","e","d"," ","r","e","d"," ","r","o","s","e","s"," ","f",
      "o","r"," ","r","o","m","a","n","t","i","c"," ","o","c","c","a","s","i","o","n","s",
      ".">>

IMAGE_ROSE ==
    <<"h","t","t","p","s",":","/","/","i","m","a","g","e","s",".","u","n","s","p","l","a",
      "s","h",".","c","o","m","/","p","h","o","t","o","-","1","5","1","8","8","9","5","9",
      "4","9","2","5","7","-","7","6","2","1","c","3","c","7","8","6","d","7","?","a","u",
      "t","o","=","f","o","r","m","a","t","&","f","i","t","=","c","r","o","p","&","w","=",
      "1","0","0","0","&","q","=","8","0">>

DESC_TULIP ==
    <<"B","r","i","g","h","t"," ","y","e","l","l","o","w"," ","a","n","d"," ","o","r","a",
      "n","g","e"," ","t","u","l","i","p","s"," ","f","o","r"," ","c","h","e","e","r","f",
      "u","l"," ","g","i","f","t","i","n","g",".">>

IMAGE_TULIP ==
    <<"h","t","t","p","s",":","/","/","i","m","a","g","e","s",".","u","n","s","p","l","a",
      "s","h",".","c","o","m","/","p","h","o","t","o","-","1","4","9","4","9","7","6","3",
      "8","8","5","3","1","-","d","1","0","5","8","4","9","4","c","d","d","8","?","a","u",
      "t","o","=","f","o","r","m","a","t","&","f","i","t","=","c","r","o","p","&","w","=",
      "1","0","0","0","&","q","=","8","0">>

DESC_LILY ==
    <<"E","l","e","g","a","n","t"," ","l","i","l","i","e","s"," ","a","r","r","a","n","g",
      "e","d"," ","i","n"," ","a"," ","c","l","e","a","r"," ","g","l","a","s","s"," ","v",
      "a","s","e",".">>

IMAGE_LILY ==
    <<"h","t","t","p","s",":","/","/","i","m","a","g","e","s",".","u","n","s","p","l","a",
      "s","h",".","c","o","m","/","p","h","o","t","o","-","1","4","6","8","3","2","7","7",
      "6","8","5","6","0","-","7","5","b","7","7","8","c","b","b","5","5","1","?","a","u",
      "t","o","=","f","o","r","m","a","t","&","f","i","t","=","c","r","o","p","&","w","=",
      "1","0","0","0","&","q","=","8","0">>

DESC_PEONY ==
    <<"S","o","f","t"," ","p","e","o","n","i","e","s"," ","w","i","t","h"," ","s","e","a",
      "s","o","n","a","l"," ","f","i","l","l","e","r","s",".">>

IMAGE_PEONY ==
    <<"h","t","t","p","s",":","/","/","i","m","a","g","e","s",".","u","n","s","p","l","a",
      "s","h",".","c","o","m","/","p","h","o","t","o","-","1","5","2","0","7","6","3","1",
      "8","5","2","9","8","-","1","b","4","3","4","c","9","1","9","1","0","2","?","a","u",
      "t","o","=","f","o","r","m","a","t","&","f","i","t","=","c","r","o","p","&","w","=",
      "1","0","0","0","&","q","=","8","0">>

\* The flowers of a new store. Prices in cents, image focus in hundredths,
\* createdAt in seconds since the epoch.
seedFlowers ==
    << [id |-> "rose-red", name |-> NAME_ROSE, description |-> DESC_ROSE, price |-> 3499,
        occasion |-> OCC_ROMANCE, image |-> IMAGE_ROSE, imageFocusX |-> 5000,
        imageFocusY |-> 4600, stock |-> 15, createdAt |-> 1767603600],
       [id |-> "sunshine-tulip", name |-> NAME_TULIP, description |-> DESC_TULIP, price |-> 2450,
        occasion |-> OCC_BIRTHDAY, image |-> IMAGE_TULIP, imageFocusX |-> 5000,
        imageFocusY |-> 4600, stock |-> 20, createdAt |-> 1767961800],
       [id |-> "pure-lily", name |-> NAME_LILY, description |-> DESC_LILY, price |-> 4100,
        occasion |-> OCC_WEDDING, image |-> IMAGE_LILY, imageFocusX |-> 5000,
        imageFocusY |-> 4600, stock |-> 8, createdAt |-> 1768207500],
       [id |-> "pastel-peony", name |-> NAME_PEONY, description |-> DESC_PEONY, price |-> 2975,
        occasion |-> OCC_THANKYOU, image |-> IMAGE_PEONY, imageFocusX |-> 5000,
        imageFocusY |-> 4600, stock |-> 12, createdAt |-> 1768471200] >>

---------------------------------------------------------------------------
\* Order creation on a flower list

\* flowerMap.get(id): 0 when the id is not a key, else the row's index
FlowerIndex(fl, id) ==
    IF \E i \in 1..Len(fl) : fl[i].id = id
    THEN CHOOSE i \in 1..Len(fl) :
            /\ fl[i].id = id
            /\ \A j \in 1..Len(fl) : fl[j].id = id => j <= i
    ELSE 0

\* Variant of InsufficientStock: the comparison off by one
InsufficientStock_OffByOne(stock, quantity) == stock <= quantity

\* if (flower.stock < item.quantity) -> 409
InsufficientStock(stock, quantity) == stock < quantity

\* Variant of ItemStatus that answers an unknown flower id like a lack of stock
ItemStatus_UnknownIsConflict(fl, item) ==
    LET i == FlowerIndex(fl, item.flowerId)
    IN  IF i = 0 THEN 409
        ELSE IF InsufficientStock(fl[i].stock, item.quantity) THEN 409
        ELSE 0

\* The validation loop's outcome for one item: 404, 409 or 0 (pushed)
ItemStatus(fl, item) ==
    LET i == FlowerIndex(fl, item.flowerId)
    IN  IF i = 0 THEN 404
        ELSE IF InsufficientStock(fl[i].stock, item.quantity) THEN 409
        ELSE 0

\* Variant of FirstRejected: only the first item is validated
FirstRejected_FirstItemOnly(fl, items) ==
    IF items # <<>> /\ ItemStatus(fl, items[1]) # 0 THEN 1 ELSE 0

\* The first item on which the validation loop throws, 0 when none
FirstRejected(fl, items) ==
    LET bad == {i \in 1..Len(items) : ItemStatus(fl, items[i]) # 0}
    IN  IF bad = {} THEN 0
        ELSE CHOOSE i \in bad : \A j \in bad : i <= j

\* normalizedItems.push({ flowerId, name, unitPrice, quantity, lineTotal })
LineItem(fl, item) ==
    LET flower == fl[FlowerIndex(fl, item.flowerId)]
    IN  [flowerId |-> flower.id,
         name |-> flower.name,
         unitPrice |-> flower.price,
         quantity |-> item.quantity,
         lineTotal |-> flower.price * item.quantity]

NormalizedItems(fl, items) == [i \in 1..Len(items) |-> LineItem(fl, items[i])]

\* Variant of StockAfter that leaves the stock as it was
StockAfter_Unchanged(stock, quantity) == stock

\* flower.stock -= item.quantity
StockAfter(stock, quantity) == stock - quantity

\* for (const item of normalizedItems) { flower.stock -= item.quantity }
RECURSIVE DecrementStock(_, _)
DecrementStock(fl, lines) ==
    IF lines = <<>> THEN fl
    ELSE LET i == FlowerIndex(fl, Head(lines).flowerId)
         IN  DecrementStock(
                [fl EXCEPT ![i].stock = StockAfter(@, Head(lines).quantity)],
                Tail(lines))

RECURSIVE SumLineTotals(_)
SumLineTotals(lines) ==
    IF lines = <<>> THEN 0 ELSE Head(lines).lineTotal + SumLineTotals(Tail(lines))

\* The error the validation loop throws on a rejected item: the fixed part of
\* its message and the text interpolated into it (`flower not found: ${flowerId}`,
\* `insufficient stock for ${flower.name}`)
RejectionMessage(fl, item) ==
    IF FlowerIndex(fl, item.flowerId) = 0
    THEN [message |-> "flower not found", about |-> <<item.flowerId>>]
    ELSE [message |-> "insufficient stock",
          about |-> fl[FlowerIndex(fl, item.flowerId)].name]

\* The order object createOrderInMemory / createOrderInDb build
OrderRecord(id, payload, lines) ==
    [id |-> id,
     customer |-> payload.customer,
     paymentMethod |-> payload.paymentMethod,
     paymentStatus |-> payload.paymentStatus,
     items |-> lines,
     total |-> SumLineTotals(lines)]


\* Variant of createOrderInMemory whose validation loop reads the stock of an
\* earlier moment (the store as constructed), while the decrement applies to
\* the stock of now
createOrderInMemory_StaleCheck(fl, payload) ==
    LET rejected == FirstRejected(seedFlowers, payload.items)
        lines == NormalizedItems(seedFlowers, payload.items)
    IN  IF rejected # 0 \/ \E i \in 1..Len(payload.items) :
                                FlowerIndex(fl, payload.items[i].flowerId) = 0
        THEN [status |-> 409, message |-> "insufficient stock", about |-> <<>>,
              flowers |-> fl, lines |-> <<>>]
        ELSE [status |-> 201, message |-> "", about |-> <<>>,
              flowers |-> DecrementStock(fl, lines), lines |-> lines]

\* createOrderInMemory(payload) on flower list fl: the status it ends in, the
\* flower list it leaves and the line items of the order it pushes
createOrderInMemory(fl, payload) ==
    LET rejected == FirstRejected(fl, payload.items)
        lines == NormalizedItems(fl, payload.items)
    IN  IF rejected # 0
        THEN [status |-> ItemStatus(fl, payload.items[rejected]),
              message |-> RejectionMessage(fl, payload.items[rejected]).message,
              about |-> RejectionMessage(fl, payload.items[rejected]).about,
              flowers |-> fl,
              lines |-> <<>>]
        ELSE [status |-> 201,
              message |-> "",
              about |-> <<>>,
              flowers |-> DecrementStock(fl, lines),
              lines |-> lines]

---------------------------------------------------------------------------
\* Request inputs the model submits

GoodCustomer ==
    [name |-> TXT_ANA, email |-> TXT_EMAIL, phone |-> TXT_PHONE, address |-> TXT_ADDRESS]

\* Same customer with padding and capitals: trims and lower-casing apply
PaddedCustomer ==
    [name |-> TXT_ANA_PAD, email |-> TXT_EMAIL_UP, phone |-> TXT_PHONE_PAD,
     address |-> TXT_ADDRESS]

BadCustomers ==
    { [GoodCustomer EXCEPT !.phone = TXT_PHONE_ABC],
      [GoodCustomer EXCEPT !.phone = TXT_PHONE_FEW],
      [GoodCustomer EXCEPT !.phone = TXT_PHONE_SHORT],
      [GoodCustomer EXCEPT !.phone = TXT_PHONE_MANY],
      [GoodCustomer EXCEPT !.phone = <<>>],
      [GoodCustomer EXCEPT !.phone = TXT_PHONE_ABC, !.name = TXT_A],
      [GoodCustomer EXCEPT !.phone = TXT_PHONE_ABC, !.email = TXT_EMAIL_NOAT],
      [GoodCustomer EXCEPT !.email = TXT_EMAIL_NODOT],
      [GoodCustomer EXCEPT !.name = TXT_A],
      [GoodCustomer EXCEPT !.address = TXT_ADDRESS_SHORT] }

\* Cart lines: within stock (lily 4 of 8, rose 8 of 15), above stock (lily 10
\* of 8), of no catalog flower (ghost); two lily-4 lines sum to the stock, two
\* rose-8 lines to above it
CartItems ==
    { [flowerId |-> "pure-lily", quantity |-> 4],
      [flowerId |-> "pure-lily", quantity |-> 10],
      [flowerId |-> "rose-red", quantity |-> 8],
      [flowerId |-> "ghost", quantity |-> 4] }

ItemLists == UNION {[1..n -> CartItems] : n \in 1..MaxItems}

InvalidItemLists ==
    { << [flowerId |-> "rose-red", quantity |-> 0] >>,
      << [flowerId |-> "rose-red", quantity |-> MaxItemQuantity + 1] >>,
      << [flowerId |-> "", quantity |-> 4] >>,
      << [flowerId |-> "pure-lily", quantity |-> 10],
         [flowerId |-> "rose-red", quantity |-> -1] >> }

PaymentInputs == {<<>>, CASH, TXT_PAYPAL_MIXED, TXT_BITCOIN}

Body(customer, items, paymentMethod) ==
    [parseOk |-> TRUE, hasCustomer |-> TRUE, customer |-> customer,
     itemsIsArray |-> TRUE, items |-> items, paymentMethod |-> paymentMethod]

OneRose == << [flowerId |-> "rose-red", quantity |-> 8] >>
TooManyLilies == << [flowerId |-> "pure-lily", quantity |-> 10] >>

OrderBodies ==
    {Body(GoodCustomer, items, PAYPAL) : items \in ItemLists \cup InvalidItemLists}
    \cup {Body(PaddedCustomer, OneRose, p) : p \in PaymentInputs}
    \cup {Body(c, items, PAYPAL) : c \in BadCustomers, items \in {OneRose, TooManyLilies}}
    \cup { [Body(GoodCustomer, OneRose, PAYPAL) EXCEPT !.parseOk = FALSE],
           [Body(GoodCustomer, OneRose, PAYPAL) EXCEPT !.hasCustomer = FALSE],
           [Body(GoodCustomer, OneRose, PAYPAL) EXCEPT !.itemsIsArray = FALSE],
           Body(GoodCustomer, <<>>, PAYPAL) }

Sessions == {"none", "customer", "admin"}


\* A number of a request body counts thousandths: Num(3) is 3, 4 is 0.004.
Num(n) == n * 1000

\* What Number(value) gives for a value that is not numeric; every comparison
\* with it is false in the code
NotFinite == -1000000000

\* Number.isFinite, Number.isInteger
IsFinite(n) == n # NotFinite
IsInteger(n) == IsFinite(n) /\ n % 1000 = 0

\* Number(n.toFixed(2)), in hundredths, for n >= 0 that is not half-way
\* between two hundredths
ToFixed2(n) == (n + 5) \div 10

\* The fields normalizeFlowerUpdatePayload recognises
RecognisedFields ==
    {"name", "description", "price", "occasion", "image", "imageFocusX",
     "imageFocusY", "stock"}

FlowerFields == {"name", "price", "occasion", "stock"}

\* A request body for a flower: the fields it has, and their values; the price
\* is given in cents and the stock in units
FlowerBody(has, name, price, occasion, stock) ==
    [has |-> has, name |-> name, description |-> <<>>, price |-> price * 10,
     occasion |-> occasion, image |-> <<>>, imageFocusX |-> Num(50),
     imageFocusY |-> Num(50), stock |-> Num(stock)]

\* name "Orchid Pot", price 19.99, occasion wedding, stock 3
OrchidBody == FlowerBody(FlowerFields, TXT_ORCHID, 1999, OCC_WEDDING, 3)

\* POST /flowers bodies: one valid body and its one-field variations
CreateBodies ==
    {FlowerBody(FlowerFields, TXT_ORCHID, 1999, OCC_WEDDING, st) :
        st \in {0, 3, MAX_STOCK, MAX_STOCK + 1, -1}}
    \cup {FlowerBody(FlowerFields, TXT_ORCHID, pr, OCC_WEDDING, 3) : pr \in {0, -100}}
    \cup {FlowerBody(FlowerFields, TXT_X, 1999, OCC_WEDDING, 3)}
    \cup {FlowerBody(FlowerFields, TXT_ORCHID, 1999, oc, 3) :
            oc \in {TXT_WEDDING_MIXED, TXT_FUNERAL}}
    \cup {FlowerBody(FlowerFields \ {f}, TXT_ORCHID, 1999, OCC_WEDDING, 3) :
            f \in FlowerFields}
    \cup {[OrchidBody EXCEPT !.price = pr] : pr \in {4, NotFinite}}
    \cup {[OrchidBody EXCEPT !.stock = st] : st \in {2500, NotFinite}}
    \cup {[OrchidBody EXCEPT !.has = @ \cup {"image"}, !.image = im] :
            im \in {TXT_URL_PAD, TXT_URL_FTP, TXT_NOT_URL}}
    \cup {[OrchidBody EXCEPT !.has = @ \cup {"imageFocusX"}, !.imageFocusX = fx] :
            fx \in {Num(30), Num(101), NotFinite}}
    \cup {[OrchidBody EXCEPT !.has = @ \cup {"description"}, !.description = TXT_SALE_PAD]}

\* A body without any flower field
NoFields == FlowerBody({}, <<>>, 0, <<>>, 0)

\* PATCH /flowers bodies: every one-field patch, two-field patches, the empty
\* patch and a patch of an unrecognised field
PatchBodies ==
    {FlowerBody({"name"}, nm, 0, <<>>, 0) : nm \in {TXT_RENAMED, TXT_X}}
    \cup {FlowerBody({"price"}, <<>>, pr, <<>>, 0) : pr \in {3999, 0}}
    \cup {FlowerBody({"stock"}, <<>>, 0, <<>>, st) : st \in {0, 30, MAX_STOCK + 1, -1}}
    \cup {FlowerBody({"occasion"}, <<>>, 0, oc, 0) : oc \in {TXT_WEDDING_MIXED, TXT_FUNERAL}}
    \cup {FlowerBody({"name", "stock"}, TXT_RENAMED, 0, <<>>, -1),
          FlowerBody({"price", "stock"}, <<>>, 3999, <<>>, 2),
          NoFields,
          [NoFields EXCEPT !.has = {"color"}]}
    \cup {[NoFields EXCEPT !.has = {"price"}, !.price = pr] : pr \in {4, NotFinite}}
    \cup {[NoFields EXCEPT !.has = {"stock"}, !.stock = 2500]}
    \cup {[NoFields EXCEPT !.has = {"image"}, !.image = im] :
            im \in {TXT_URL_PAD, TXT_URL_FTP, <<>>}}
    \cup {[NoFields EXCEPT !.has = {"imageFocusY"}, !.imageFocusY = fy] :
            fy \in {Num(30), Num(101), NotFinite}}
    \cup {[NoFields EXCEPT !.has = {"description"}, !.description = TXT_SALE_PAD]}

AdminFlowerIds == {"rose-red", "ghost"}

StatusInputs == {PENDING, PAID, FAILED, TXT_PAID_MIXED, TXT_REFUNDED, <<>>}

\* Ids createId hands out for new flowers, by draw number
NewFlowerIds == <<"new-1", "new-2", "new-3", "new-4", "new-5", "new-6", "new-7", "new-8">>

---------------------------------------------------------------------------
\* Flower payload validation

Letters == {UpperCase[i] : i \in 1..Len(UpperCase)} \cup {LowerCase[i] : i \in 1..Len(LowerCase)}

\* new URL(text).protocol without its colon: the text before the first colon,
\* in lower case, when that is a word of letters followed by something; <<>>
\* when new URL throws
UrlProtocol(text) ==
    LET colons == {i \in 1..Len(text) : text[i] = ":"}
        first == CHOOSE i \in colons : \A j \in colons : i <= j
    IN  IF colons = {} THEN <<>>
        ELSE IF first = 1 \/ first = Len(text) THEN <<>>
        ELSE IF \E i \in 1..(first - 1) : text[i] \notin Letters THEN <<>>
        ELSE ToLowerCase(SubSeq(text, 1, first - 1))

IMAGE_PROTOCOLS == {<<"h","t","t","p">>, <<"h","t","t","p","s">>}

\* isValidImageUrl
isValidImageUrl(value) ==
    \/ value = <<>>
    \/ UrlProtocol(value) \in IMAGE_PROTOCOLS

\* normalizeFlowerFocus(value) === null
FocusOutOfRange(value) == IsFinite(value) /\ (value < 0 \/ value > Num(100))

\* normalizeFlowerFocus, fallback = 50
normalizeFlowerFocus(value) == IF ~IsFinite(value) THEN 5000 ELSE ToFixed2(value)

ALLOWED_OCCASIONS == {OCC_GENERAL, OCC_ROMANCE, OCC_BIRTHDAY, OCC_WEDDING, OCC_THANKYOU}

normalizeOccasion(value) ==
    LET normalized == ToLowerCase(Trim(value))
    IN  IF normalized \in ALLOWED_OCCASIONS THEN normalized ELSE NULL

\* if (!Number.isFinite(parsedStock) || parsedStock < 0 || parsedStock > MAX_STOCK)
StockOutOfRange(parsedStock) ==
    ~IsFinite(parsedStock) \/ parsedStock < 0 \/ parsedStock > Num(MAX_STOCK)

\* if (!Number.isFinite(parsedPrice) || parsedPrice <= 0)
PriceInvalid(parsedPrice) == ~IsFinite(parsedPrice) \/ parsedPrice <= 0

\* normalizeCreateFlowerPayload: "" or the message of the error it throws.
\* An absent name is "", an absent price is NaN; occasion defaults to
\* "general" and stock to 0.
CreateFlowerError(body) ==
    IF "name" \notin body.has \/ Len(Trim(body.name)) < NameMinLen
        THEN "name must be at least 2 characters"
    ELSE IF "price" \notin body.has \/ PriceInvalid(body.price)
        THEN "price must be greater than 0"
    ELSE IF "stock" \in body.has /\ StockOutOfRange(body.stock)
        THEN "stock must be an integer between 0 and 10000"
    ELSE IF "stock" \in body.has /\ ~IsInteger(body.stock)
        THEN "stock must be a whole number"
    ELSE IF "occasion" \in body.has /\ normalizeOccasion(body.occasion) = NULL
        THEN "occasion is invalid"
    ELSE IF "image" \in body.has /\ ~isValidImageUrl(Trim(body.image))
        THEN "image must be a valid http/https URL"
    ELSE IF \/ "imageFocusX" \in body.has /\ FocusOutOfRange(body.imageFocusX)
            \/ "imageFocusY" \in body.has /\ FocusOutOfRange(body.imageFocusY)
        THEN "image focus values must be between 0 and 100"
    ELSE ""

\* normalizeCreateFlowerPayload: the flower it returns; a field the body lacks
\* takes the default of the destructuring
normalizeCreateFlowerPayload(body, id) ==
    [id |-> id,
     name |-> Trim(body.name),
     description |-> IF "description" \in body.has THEN Trim(body.description) ELSE <<>>,
     price |-> ToFixed2(body.price),
     occasion |-> IF "occasion" \in body.has
                  THEN normalizeOccasion(body.occasion) ELSE OCC_GENERAL,
     image |-> IF "image" \in body.has THEN Trim(body.image) ELSE <<>>,
     imageFocusX |-> IF "imageFocusX" \in body.has
                     THEN normalizeFlowerFocus(body.imageFocusX) ELSE 5000,
     imageFocusY |-> IF "imageFocusY" \in body.has
                     THEN normalizeFlowerFocus(body.imageFocusY) ELSE 5000,
     stock |-> IF "stock" \in body.has THEN body.stock \div 1000 ELSE 0,
     createdAt |-> now]

\* normalizeFlowerUpdatePayload: "" or the message of the error it throws
UpdateFlowerError(body) ==
    IF "name" \in body.has /\ Len(Trim(body.name)) < NameMinLen
        THEN "name must be at least 2 characters"
    ELSE IF "price" \in body.has /\ PriceInvalid(body.price)
        THEN "price must be greater than 0"
    ELSE IF "occasion" \in body.has /\ normalizeOccasion(body.occasion) = NULL
        THEN "occasion is invalid"
    ELSE IF "image" \in body.has /\ ~isValidImageUrl(Trim(body.image))
        THEN "image must be a valid http/https URL"
    ELSE IF "imageFocusX" \in body.has /\ FocusOutOfRange(body.imageFocusX)
        THEN "imageFocusX must be between 0 and 100"
    ELSE IF "imageFocusY" \in body.has /\ FocusOutOfRange(body.imageFocusY)
        THEN "imageFocusY must be between 0 and 100"
    ELSE IF "stock" \in body.has /\ StockOutOfRange(body.stock)
        THEN "stock must be an integer between 0 and 10000"
    ELSE IF "stock" \in body.has /\ ~IsInteger(body.stock)
        THEN "stock must be a whole number"
    ELSE IF body.has \cap RecognisedFields = {}
        THEN "at least one flower field is required"
    ELSE ""

\* { ...currentFlower, ...updates }
ApplyFlowerUpdate(flower, body) ==
    [id |-> flower.id,
     name |-> IF "name" \in body.has THEN Trim(body.name) ELSE flower.name,
     description |-> IF "description" \in body.has
                     THEN Trim(body.description) ELSE flower.description,
     price |-> IF "price" \in body.has THEN ToFixed2(body.price) ELSE flower.price,
     occasion |-> IF "occasion" \in body.has
                  THEN normalizeOccasion(body.occasion) ELSE flower.occasion,
     image |-> IF "image" \in body.has THEN Trim(body.image) ELSE flower.image,
     imageFocusX |-> IF "imageFocusX" \in body.has
                     THEN normalizeFlowerFocus(body.imageFocusX) ELSE flower.imageFocusX,
     imageFocusY |-> IF "imageFocusY" \in body.has
                     THEN normalizeFlowerFocus(body.imageFocusY) ELSE flower.imageFocusY,
     stock |-> IF "stock" \in body.has THEN body.stock \div 1000 ELSE flower.stock,
     createdAt |-> flower.createdAt]

\* store.flowers.findIndex((flower) => flower.id === flowerId), 0 for -1
FindFlower(fl, id) ==
    IF \E i \in 1..Len(fl) : fl[i].id = id
    THEN CHOOSE i \in 1..Len(fl) :
            /\ fl[i].id = id
            /\ \A j \in 1..Len(fl) : fl[j].id = id => i <= j
    ELSE 0

\* Variant of RemoveAt that also drops what follows the element
RemoveAt_DropsTail(seq, i) == SubSeq(seq, 1, i - 1)

\* store.flowers.splice(flowerIndex, 1)
RemoveAt(seq, i) == SubSeq(seq, 1, i - 1) \o SubSeq(seq, i + 1, Len(seq))

\* store.orders.findIndex((order) => order.id === orderId), 0 for -1
FindOrder(os, id) ==
    IF \E i \in 1..Len(os) : os[i].id = id
    THEN CHOOSE i \in 1..Len(os) :
            /\ os[i].id = id
            /\ \A j \in 1..Len(os) : os[j].id = id => i <= j
    ELSE 0

\* normalizeLegacyOrder
normalizeLegacyOrder(order) ==
    [order EXCEPT
        !.customer = [name |-> Trim(order.customer.name),
                      email |-> Trim(order.customer.email),
                      phone |-> Trim(order.customer.phone),
                      address |-> Trim(order.customer.address)],
        !.paymentMethod = IF normalizePaymentMethod(order.paymentMethod) = NULL
                          THEN CASH ELSE normalizePaymentMethod(order.paymentMethod),
        !.paymentStatus = IF normalizePaymentStatus(order.paymentStatus) = NULL
                          THEN PENDING ELSE normalizePaymentStatus(order.paymentStatus)]

\* Variant of updateOrderStatusInMemory: the stored order is replaced by a
\* record that carries the new status but not the line items
updateOrderStatusInMemory_DropsItems(order, paymentStatus) ==
    [normalizeLegacyOrder(order) EXCEPT
        !.paymentStatus = paymentStatus, !.items = <<>>, !.total = 0]

\* updateOrderStatusInMemory: { ...normalized, paymentStatus }
updateOrderStatusInMemory(order, paymentStatus) ==
    [normalizeLegacyOrder(order) EXCEPT !.paymentStatus = paymentStatus]


---------------------------------------------------------------------------
\* Chat: payload, local reply

CHAT_MAX_MESSAGE_LENGTH == 500
CHAT_TIMEOUT_MS == 12000

\* "What is your cheapest bouquet?"
MSG_TEST ==
    <<"W","h","a","t"," ","i","s"," ","y","o","u","r"," ","c","h","e","a","p","e","s","t"," ","b","o","u","q","u","e","t","?">>
\* "My BUDGET is low"
MSG_BUDGET ==
    <<"M","y"," ","B","U","D","G","E","T"," ","i","s"," ","l","o","w">>
\* "which is cheapest"
MSG_WHICH ==
    <<"w","h","i","c","h"," ","i","s"," ","c","h","e","a","p","e","s","t">>
\* "cheap shipping"
MSG_CHEAP_SHIP ==
    <<"c","h","e","a","p"," ","s","h","i","p","p","i","n","g">>
\* "cost to pay"
MSG_COST_PAY ==
    <<"c","o","s","t"," ","t","o"," ","p","a","y">>
\* "hello"
MSG_HELLO ==
    <<"h","e","l","l","o">>
\* " roses for a wedding "
MSG_WEDDING ==
    <<" ","r","o","s","e","s"," ","f","o","r"," ","a"," ","w","e","d","d","i","n","g"," ">>
\* "any occasion"
MSG_GENERAL ==
    <<"a","n","y"," ","o","c","c","a","s","i","o","n">>
\* "a human please"
MSG_HUMAN ==
    <<"a"," ","h","u","m","a","n"," ","p","l","e","a","s","e">>
\* "tell me more"
MSG_MORE ==
    <<"t","e","l","l"," ","m","e"," ","m","o","r","e">>
\* "   "
MSG_BLANK ==
    <<" "," "," ">>
\* 501 characters
MSG_LONG == [i \in 1..(CHAT_MAX_MESSAGE_LENGTH + 1) |-> "x"]

\* normalizeChatPayload without the trim of the message
ChatPayloadError_NoTrim(body) ==
    IF body.message = <<>> THEN "message is required"
    ELSE IF Len(body.message) > CHAT_MAX_MESSAGE_LENGTH
    THEN "message must be 500 characters or less"
    ELSE ""

\* normalizeChatPayload: the message of the error it throws, "" when none
ChatPayloadError(body) ==
    IF Trim(body.message) = <<>> THEN "message is required"
    ELSE IF Len(Trim(body.message)) > CHAT_MAX_MESSAGE_LENGTH
    THEN "message must be 500 characters or less"
    ELSE ""

\* pattern.test(text) for a pattern that is one word
Contains(text, word) ==
    \E i \in 1..(Len(text) - Len(word) + 1) : SubSeq(text, i, i + Len(word) - 1) = word

\* pattern.test(text) for a pattern that is an alternation of words
Matches(text, words) == \E w \in words : Contains(text, w)

\* /(hello|hi|hey|good morning|good evening)/i
KW_GREETING ==
    { <<"h","e","l","l","o">>,
      <<"h","i">>,
      <<"h","e","y">>,
      <<"g","o","o","d"," ","m","o","r","n","i","n","g">>,
      <<"g","o","o","d"," ","e","v","e","n","i","n","g">> }

\* /(delivery|ship|shipping|same day|arrive)/i
KW_DELIVERY ==
    { <<"d","e","l","i","v","e","r","y">>,
      <<"s","h","i","p">>,
      <<"s","h","i","p","p","i","n","g">>,
      <<"s","a","m","e"," ","d","a","y">>,
      <<"a","r","r","i","v","e">> }

\* /(payment|paypal|cash|card|pay)/i
KW_PAYMENT ==
    { <<"p","a","y","m","e","n","t">>,
      <<"p","a","y","p","a","l">>,
      <<"c","a","s","h">>,
      <<"c","a","r","d">>,
      <<"p","a","y">> }

\* /(price|cost|cheap|budget|afford)/i
KW_PRICING ==
    { <<"p","r","i","c","e">>,
      <<"c","o","s","t">>,
      <<"c","h","e","a","p">>,
      <<"b","u","d","g","e","t">>,
      <<"a","f","f","o","r","d">> }

\* /(romance|romantic|love|anniversary|valentine)/i
KW_ROMANCE ==
    { <<"r","o","m","a","n","c","e">>,
      <<"r","o","m","a","n","t","i","c">>,
      <<"l","o","v","e">>,
      <<"a","n","n","i","v","e","r","s","a","r","y">>,
      <<"v","a","l","e","n","t","i","n","e">> }

\* /(birthday|bday)/i
KW_BIRTHDAY ==
    { <<"b","i","r","t","h","d","a","y">>,
      <<"b","d","a","y">> }

\* /(wedding|bridal|bride)/i
KW_WEDDING ==
    { <<"w","e","d","d","i","n","g">>,
      <<"b","r","i","d","a","l">>,
      <<"b","r","i","d","e">> }

\* /(thank|gratitude|appreciation)/i
KW_THANKYOU ==
    { <<"t","h","a","n","k">>,
      <<"g","r","a","t","i","t","u","d","e">>,
      <<"a","p","p","r","e","c","i","a","t","i","o","n">> }

\* /(general|any occasion|everyday)/i
KW_GENERAL ==
    { <<"g","e","n","e","r","a","l">>,
      <<"a","n","y"," ","o","c","c","a","s","i","o","n">>,
      <<"e","v","e","r","y","d","a","y">> }

\* /(contact|phone|whatsapp|support|agent|human)/i
KW_CONTACT ==
    { <<"c","o","n","t","a","c","t">>,
      <<"p","h","o","n","e">>,
      <<"w","h","a","t","s","a","p","p">>,
      <<"s","u","p","p","o","r","t">>,
      <<"a","g","e","n","t">>,
      <<"h","u","m","a","n">> }

\* The occasion patterns, in the order they are tried
OccasionPatterns ==
    << [occasion |-> OCC_ROMANCE, words |-> KW_ROMANCE],
       [occasion |-> OCC_BIRTHDAY, words |-> KW_BIRTHDAY],
       [occasion |-> OCC_WEDDING, words |-> KW_WEDDING],
       [occasion |-> OCC_THANKYOU, words |-> KW_THANKYOU],
       [occasion |-> OCC_GENERAL, words |-> KW_GENERAL] >>

\* index of the first occasion pattern that matches, 0 when none does
OccasionMatch(text) ==
    IF \E k \in 1..Len(OccasionPatterns) : Matches(text, OccasionPatterns[k].words)
    THEN CHOOSE k \in 1..Len(OccasionPatterns) :
            /\ Matches(text, OccasionPatterns[k].words)
            /\ \A j \in 1..(k - 1) : ~Matches(text, OccasionPatterns[j].words)
    ELSE 0

\* flowers.filter((flower) => Number(flower?.stock || 0) > 0)
InStock(fl) == SelectSeq(fl, LAMBDA f : f.stock > 0)

\* slice(0, n)
Take(seq, n) == SubSeq(seq, 1, IF Len(seq) < n THEN Len(seq) ELSE n)

\* Variant of CheapestIndex: the first flower in stock, whatever its price
CheapestIndex_First(inStock) == IF inStock = <<>> THEN 0 ELSE 1

\* [...inStock].sort((a, b) => a.price - b.price)[0]: the sort is stable, so
\* the first of the cheapest; 0 when the list is empty
CheapestIndex(inStock) ==
    IF inStock = <<>> THEN 0
    ELSE CHOOSE i \in 1..Len(inStock) :
            /\ \A j \in 1..Len(inStock) : inStock[i].price <= inStock[j].price
            /\ \A j \in 1..(i - 1) : inStock[j].price > inStock[i].price

\* What a reply says of a flower: `${flower.name} ($${price.toFixed(2)})`
Pick(flower) == [name |-> flower.name, price |-> flower.price]

Picks(fl) == [i \in 1..Len(fl) |-> Pick(fl[i])]

\* A reply: which sentence it is, the flowers and the occasion it names, and
\* for the external service the text it returned
Reply(kind, picks, occasion) ==
    [kind |-> kind, picks |-> picks, occasion |-> occasion, text |-> <<>>]

NoReply == Reply("none", <<>>, <<>>)

\* buildLocalChatReply
buildLocalChatReply(message, fl) ==
    LET normalized == ToLowerCase(message)
        inStock == InStock(fl)
        featured == Take(inStock, 3)
        k == OccasionMatch(normalized)
        matching == Take(SelectSeq(inStock,
                        LAMBDA f : f.occasion = OccasionPatterns[k].occasion), 3)
    IN  IF Matches(normalized, KW_GREETING) THEN Reply("greeting", <<>>, <<>>)
        ELSE IF Matches(normalized, KW_DELIVERY) THEN Reply("delivery", <<>>, <<>>)
        ELSE IF Matches(normalized, KW_PAYMENT) THEN Reply("payment", <<>>, <<>>)
        ELSE IF Matches(normalized, KW_PRICING)
        THEN IF inStock # <<>>
             THEN Reply("pricing", <<Pick(inStock[CheapestIndex(inStock)])>>, <<>>)
             ELSE Reply("pricing-no-stock", <<>>, <<>>)
        ELSE IF k # 0
        THEN IF matching # <<>>
             THEN Reply("occasion", Picks(matching), OccasionPatterns[k].occasion)
             ELSE Reply("occasion-limited", <<>>, OccasionPatterns[k].occasion)
        ELSE IF Matches(normalized, KW_CONTACT) THEN Reply("contact", <<>>, <<>>)
        ELSE IF featured # <<>> THEN Reply("top-picks", Picks(featured), <<>>)
        ELSE Reply("generic", <<>>, <<>>)

\* "Roses!", " Lily ", the line break
TXT_ROSES == <<"R","o","s","e","s","!">>
TXT_LILY_PAD == <<" ","L","i","l","y"," ">>
LineBreak == "\n"

\* parts.join("\n")
RECURSIVE Join(_)
Join(parts) ==
    IF parts = <<>> THEN <<>>
    ELSE IF Len(parts) = 1 THEN parts[1]
    ELSE parts[1] \o <<LineBreak>> \o Join(Tail(parts))

\* Variant of extractOpenAiText that does not trim the text
extractOpenAiText_NoTrim(payload) ==
    IF payload.output_text # <<>> THEN payload.output_text ELSE Join(payload.parts)

\* extractOpenAiText: output_text trimmed, else the trimmed non-empty texts of
\* the content parts joined by line breaks, trimmed
extractOpenAiText(payload) ==
    IF Trim(payload.output_text) # <<>> THEN Trim(payload.output_text)
    ELSE Trim(Join(SelectSeq([i \in 1..Len(payload.parts) |-> Trim(payload.parts[i])],
                             LAMBDA t : t # <<>>)))

\* What fetch and response.json() give: response.ok, whether the body parsed,
\* and the payload
ProviderAnswer(ok, jsonOk, output_text, parts) ==
    [ok |-> ok, jsonOk |-> jsonOk, output_text |-> output_text, parts |-> parts]

ProviderAnswers ==
    { ProviderAnswer(TRUE, TRUE, TXT_ROSES, <<>>),
      ProviderAnswer(TRUE, TRUE, <<>>, <<TXT_BLANK, TXT_LILY_PAD, TXT_ROSES>>),
      ProviderAnswer(TRUE, TRUE, TXT_BLANK, <<>>),
      ProviderAnswer(TRUE, TRUE, <<>>, <<TXT_BLANK>>),
      ProviderAnswer(TRUE, FALSE, TXT_ROSES, <<>>),
      ProviderAnswer(FALSE, TRUE, TXT_ROSES, <<>>),
      ProviderAnswer(FALSE, FALSE, <<>>, <<>>) }

\* requestOpenAiChatReply after the fetch returned: the reply text, <<>> when
\* it throws (status not ok, or empty text)
OpenAiReplyText(answer) ==
    IF ~answer.ok THEN <<>>
    ELSE IF ~answer.jsonOk THEN <<>>
    ELSE extractOpenAiText(answer)

\* The chat handler at rest; `configured`: OPENAI_API_KEY is set
ChatIdle(configured) ==
    [pc |-> "idle", configured |-> configured, message |-> <<>>, elapsed |-> 0,
     count |-> 0, status |-> 0, source |-> "none", reply |-> NoReply,
     cause |-> "none"]

---------------------------------------------------------------------------
\* Session tokens

SESSION_TTL_SECONDS == 86400

\* The clock when the process starts (seconds since the epoch)
StartTime == 1700000000

\* getSecret(), and a key that is not the secret
AUTH_SECRET == "change-this-auth-secret"
OTHER_SECRET == "not-the-secret"

\* createHmac("sha256", key).update(unsigned).digest(): the digest stands for
\* the pair it was computed from, so two digests are equal exactly when key
\* and signed text are
Hmac(key, unsigned) == [key |-> key, over |-> unsigned]

\* signToken(payload): header.body.signature
signToken(payload) ==
    [parts |-> 3, payload |-> payload, signature |-> Hmac(AUTH_SECRET, payload)]

\* A request without session cookie, and a cookie that is not of three parts
NO_COOKIE == [parts |-> 0]
GARBAGE_COOKIE == [parts |-> 1]

\* Variant of verifyToken that does not look at the expiry
verifyToken_IgnoresExpiry(token, t) ==
    /\ token.parts = 3
    /\ token.signature = Hmac(AUTH_SECRET, token.payload)

\* Variant of verifyToken that refuses the tokens handed out before a logout
verifyToken_RevokedByLogout(token, t) ==
    /\ token.parts = 3
    /\ token.signature = Hmac(AUTH_SECRET, token.payload)
    /\ token.payload.exp # 0
    /\ ~(token.payload.exp < t)
    /\ token \notin loggedOut

\* verifyToken(token) at clock t: TRUE when it returns the payload, FALSE
\* when it returns null
verifyToken(token, t) ==
    /\ token.parts = 3
    /\ token.signature = Hmac(AUTH_SECRET, token.payload)
    /\ token.payload.exp # 0
    /\ ~(token.payload.exp < t)

\* getSessionUser(req) at clock t, as the role of the user it returns, "none"
\* when it returns null
\* Variant of getSessionUser that reads the role without verifying the token
getSessionUser_TrustsPayload(token, t) ==
    IF token.parts = 3 THEN token.payload.role ELSE "none"

getSessionUser(token, t) ==
    IF verifyToken(token, t) THEN token.payload.role ELSE "none"

\* setSessionCookie(res, user) at clock t: the token it puts in the cookie
setSessionCookie(user, t) ==
    signToken([sub |-> user.id, email |-> user.email, role |-> user.role,
               exp |-> t + SESSION_TTL_SECONDS])

\* "Admin1234!", "Customer1234!"
PW_ADMIN == <<"A","d","m","i","n","1","2","3","4","!">>
PW_CUSTOMER == <<"C","u","s","t","o","m","e","r","1","2","3","4","!">>

\* "admin@zaamiflower.com", "customer@zaamiflower.com"
ADMIN_EMAIL ==
    <<"a","d","m","i","n","@","z","a","a","m","i","f","l","o","w","e","r",".","c","o","m">>
CUSTOMER_EMAIL ==
    <<"c","u","s","t","o","m","e","r","@","z","a","a","m","i","f","l","o","w","e","r",".","c","o","m">>
\* " Admin@ZaamiFlower.com "
TXT_ADMIN_EMAIL_PAD ==
    <<" ","A","d","m","i","n","@","Z","a","a","m","i","F","l","o","w","e","r",".","c","o","m"," ">>

\* normalizeEmail
normalizeEmail(email) == ToLowerCase(Trim(email))

\* getConfiguredUsers() outside production with no account variables set
getConfiguredUsers ==
    << [id |-> "admin-1", email |-> normalizeEmail(ADMIN_EMAIL),
        password |-> PW_ADMIN, role |-> "admin"],
       [id |-> "customer-1", email |-> normalizeEmail(CUSTOMER_EMAIL),
        password |-> PW_CUSTOMER, role |-> "customer"] >>

\* authenticateCredentials(email, password), the loop over the configured
\* users: the index of the configured user it returns, 0 when the loop ends
\* without one
authenticateCredentials(email, password) ==
    LET configured == getConfiguredUsers
        hits == {i \in 1..Len(configured) :
                    /\ configured[i].email = normalizeEmail(email)
                    /\ configured[i].password = password}
    IN  IF hits = {} THEN 0 ELSE CHOOSE i \in hits : \A j \in hits : i <= j

---------------------------------------------------------------------------
\* Responses and the role gate

\* hashPassword(password): scrypt with a fresh salt; the stored text stands
\* for the password it was derived from
hashPassword(password) == [scheme |-> "scrypt", of |-> password]

\* verifyPassword(storedPassword, inputPassword) for a stored scrypt text
verifyPassword(stored, input) == stored = hashPassword(input)

\* authenticateCredentials after the loop over the configured users, with the
\* in-memory store: the index in store.users of the user it returns, 0 when it
\* returns null
findLocalUser(localUsers, email, password) ==
    LET hits == {i \in 1..Len(localUsers) : localUsers[i].email = normalizeEmail(email)}
        first == CHOOSE i \in hits : \A j \in hits : i <= j
    IN  IF hits = {} THEN 0
        ELSE IF ~verifyPassword(localUsers[first].password, password) THEN 0
        ELSE first

\* json(res, status, { message }): the operation answered, the status, the
\* fixed part of the message and the text interpolated into it
Response(op, status, message) ==
    [op |-> op, status |-> status, message |-> message, about |-> <<>>]

\* Variant of requireRole that lets every signed-in role through
requireRole_AnySession(session, allowedRoles) ==
    IF ~authConfigured THEN 503
    ELSE IF session = "none" THEN 401
    ELSE 0

\* requireRole on the role getSessionUser found ("none": no user): 0 when the
\* role is allowed, else the status it answers
requireRole(session, allowedRoles) ==
    IF ~authConfigured THEN 503
    ELSE IF session = "none" THEN 401
    ELSE IF session \notin allowedRoles THEN 403
    ELSE 0

RoleMessage(status) ==
    IF status = 503 THEN "authentication is not configured"
    ELSE IF status = 401 THEN "authentication required"
    ELSE "insufficient permissions"

InFlight == {r \in Requests : pc[r] # "idle"}

NoLocals == [r \in Requests |-> [items |-> <<>>]]

\* The Express server when it starts listening: the data file holds
\* defaultData, writeQueue is Promise.resolve(), no request is being handled.
\* jobs: the calls of writeData so far, in call order; rejected: writeQueue is
\* a rejected promise; accepted: the orders answered 201 (history)
DiskIdle ==
    [file |-> [flowers |-> seedFlowers, orders |-> <<>>],
     jobs |-> <<>>,
     rejected |-> FALSE,
     req |-> [r \in Requests |-> [pc |-> "idle", payload |-> <<>>, job |-> 0]],
     posts |-> 0,
     accepted |-> <<>>]

\* The client (App.jsx) as it mounts. flowers, cart: the React state; seen: the
\* flowers and the cart of the last render, which the handlers close over and
\* the page displays; sent: the items of the order awaited; answer: the status
\* its request settled with (0: none yet); unrendered: the events handled
\* since the last render; placed: the orders placed; moved: the flowers in the
\* cart whose displayed stock has changed since their entry was made
ClientIdle ==
    [flowers |-> <<>>, cart |-> <<>>,
     seen |-> [flowers |-> <<>>, cart |-> <<>>],
     submitting |-> FALSE, sent |-> <<>>, answer |-> 0,
     unrendered |-> 0, placed |-> 0, moved |-> {}]

Init ==
    /\ flowers = seedFlowers
    /\ orders = <<>>
    /\ pc = [r \in Requests |-> "idle"]
    /\ loc = NoLocals
    /\ last = Response("none", 0, "")
    /\ overlapped = FALSE
    /\ nextId = 0
    /\ orderReqs = 0
    /\ adminOps = 0
    /\ now = StartTime
    /\ ticks = 0
    /\ issued = {}
    /\ authConfigured = TRUE
    /\ users = <<>>
    /\ loggedOut = {}
    /\ notifications = <<>>
    /\ settings = [heroImage |-> DEFAULT_HERO_IMAGE]
    /\ chat = ChatIdle(FALSE)
    /\ disk = DiskIdle
    /\ client = ClientIdle

---------------------------------------------------------------------------
\* In-memory store: POST /orders

\* handler (orders), POST, up to createOrder's `await readJsonBody(req)`
OrdersPost(r, session) ==
    /\ pc[r] = "idle"
    /\ orderReqs < MaxOrderRequests
    /\ orderReqs' = orderReqs + 1
    /\ LET denied == requireRole(session, {"admin", "customer"})
       IN  IF denied # 0
           THEN /\ last' = Response("createOrder", denied, RoleMessage(denied))
                /\ pc' = pc
           ELSE /\ pc' = [pc EXCEPT ![r] = "body"]
                /\ last' = last
    /\ overlapped' = (overlapped \/ Cardinality({q \in Requests : pc'[q] # "idle"}) > 1)
    /\ UNCHANGED <<client, disk, chat, flowers, orders, loc, nextId, adminOps, authVars, siteVars>>

\* Every body the model submits, with what validateOrderPayload makes of it
Submissions == {[body |-> b, payload |-> validateOrderPayload(b)] : b \in OrderBodies}

\* createOrder after the body arrived, store in memory: what it answers and
\* what it leaves in the store
CreateOrderOutcome(fl, sub) ==
    IF ~sub.body.parseOk
    THEN [status |-> 400, message |-> "invalid JSON body", about |-> <<>>,
          flowers |-> fl, lines |-> <<>>]
    ELSE IF ~sub.payload.ok
    THEN [status |-> 400, message |-> sub.payload.message, about |-> <<>>,
          flowers |-> fl, lines |-> <<>>]
    ELSE createOrderInMemory(fl, sub.payload)

\* createOrder from the point where the body has arrived
CreateOrder(r, sub) ==
    /\ pc[r] = "body"
    /\ pc' = [pc EXCEPT ![r] = "idle"]
    /\ LET out == CreateOrderOutcome(flowers, sub)
       IN  /\ last' = [Response("createOrder", out.status, out.message)
                            EXCEPT !.about = out.about]
           /\ flowers' = out.flowers
           /\ IF out.status = 201
              THEN /\ orders' = Append(orders,
                        OrderRecord(nextId + 1, sub.payload, out.lines))
                   /\ nextId' = nextId + 1
              ELSE UNCHANGED <<orders, nextId>>
    /\ UNCHANGED <<client, disk, chat, loc, overlapped, orderReqs, adminOps, authVars, siteVars>>

---------------------------------------------------------------------------
\* In-memory store: admin writes

\* handler (flowers), POST: requireRole, createFlower
FlowersPost(session, body) ==
    /\ adminOps < MaxAdminOps
    /\ adminOps' = adminOps + 1
    /\ LET denied == requireRole(session, {"admin"})
           err == CreateFlowerError(body)
       IN  IF denied # 0
           THEN /\ last' = Response("createFlower", denied, RoleMessage(denied))
                /\ UNCHANGED <<flowers, nextId>>
           ELSE IF err # ""
           THEN /\ last' = Response("createFlower", 400, err)
                /\ UNCHANGED <<flowers, nextId>>
           ELSE /\ flowers' = Append(flowers,
                        normalizeCreateFlowerPayload(body, NewFlowerIds[nextId + 1]))
                /\ nextId' = nextId + 1
                /\ last' = Response("createFlower", 201, "")
    /\ UNCHANGED <<client, disk, chat, orders, pc, loc, overlapped, orderReqs, authVars, siteVars>>

\* handler (flowers), PATCH: requireRole, updateFlower
FlowersPatch(session, flowerId, body) ==
    /\ adminOps < MaxAdminOps
    /\ adminOps' = adminOps + 1
    /\ LET denied == requireRole(session, {"admin"})
           err == UpdateFlowerError(body)
           index == FindFlower(flowers, flowerId)
       IN  IF denied # 0
           THEN /\ last' = Response("updateFlower", denied, RoleMessage(denied))
                /\ UNCHANGED flowers
           ELSE IF err # ""
           THEN /\ last' = Response("updateFlower", 400, err)
                /\ UNCHANGED flowers
           ELSE IF index = 0
           THEN /\ last' = Response("updateFlower", 404, "flower not found")
                /\ UNCHANGED flowers
           ELSE /\ flowers' = [flowers EXCEPT ![index] = ApplyFlowerUpdate(@, body)]
                /\ last' = Response("updateFlower", 200, "")
    /\ UNCHANGED <<client, disk, chat, orders, pc, loc, overlapped, nextId, orderReqs, authVars, siteVars>>

\* handler (flowers), DELETE: requireRole, deleteFlower
FlowersDelete(session, flowerId) ==
    /\ adminOps < MaxDeletes
    /\ adminOps' = adminOps + 1
    /\ LET denied == requireRole(session, {"admin"})
           index == FindFlower(flowers, flowerId)
       IN  IF denied # 0
           THEN /\ last' = Response("deleteFlower", denied, RoleMessage(denied))
                /\ UNCHANGED flowers
           ELSE IF index = 0
           THEN /\ last' = Response("deleteFlower", 404, "flower not found")
                /\ UNCHANGED flowers
           ELSE /\ flowers' = RemoveAt(flowers, index)
                /\ last' = [Response("deleteFlower", 200, "")
                                EXCEPT !.about = flowers[index].name]
    /\ UNCHANGED <<client, disk, chat, orders, pc, loc, overlapped, nextId, orderReqs, authVars, siteVars>>

\* handler (orders), PATCH: requireRole, updateOrderStatus, store in memory
OrdersPatch(session, orderId, statusInput) ==
    /\ adminOps < MaxAdminOps
    /\ adminOps' = adminOps + 1
    /\ LET denied == requireRole(session, {"admin"})
           paymentStatus == normalizePaymentStatus(statusInput)
           index == FindOrder(orders, orderId)
       IN  IF denied # 0
           THEN /\ last' = Response("updateOrderStatus", denied, RoleMessage(denied))
                /\ UNCHANGED orders
           ELSE IF paymentStatus = NULL
           THEN /\ last' = Response("updateOrderStatus", 400,
                                    "paymentStatus must be pending, paid, or failed")
                /\ UNCHANGED orders
           ELSE IF index = 0
           THEN /\ last' = Response("updateOrderStatus", 404, "order not found")
                /\ UNCHANGED orders
           ELSE /\ orders' = [orders EXCEPT
                                ![index] = updateOrderStatusInMemory(@, paymentStatus)]
                /\ last' = Response("updateOrderStatus", 200, "")
    /\ UNCHANGED <<client, disk, chat, flowers, pc, loc, overlapped, nextId, orderReqs, authVars, siteVars>>

OrderIdInputs == 1..(MaxOrderRequests + 1)

FlowerWrite ==
    \/ \E session \in Sessions, body \in CreateBodies : FlowersPost(session, body)
    \/ \E session \in Sessions, id \in AdminFlowerIds, body \in PatchBodies :
            FlowersPatch(session, id, body)
    \/ \E session \in Sessions, id \in AdminFlowerIds : FlowersDelete(session, id)

AdminWrite ==
    \/ FlowerWrite
    \/ \E session \in Sessions, id \in OrderIdInputs, st \in StatusInputs :
            OrdersPatch(session, id, st)

Next ==
    \/ \E r \in Requests, session \in Sessions : OrdersPost(r, session)
    \/ \E r \in Requests, sub \in Submissions : CreateOrder(r, sub)
    \/ AdminWrite

Spec == Init /\ [][Next]_vars

---------------------------------------------------------------------------
\* Notifications and settings (in-memory store)

TitleMaxLen == 80
MessageMaxLen == 280

\* 81 and 281 characters
TXT_LONG_TITLE == [i \in 1..(TitleMaxLen + 1) |-> "x"]
TXT_LONG_MESSAGE == [i \in 1..(MessageMaxLen + 1) |-> "x"]

NotificationBody(parseOk, title, message) ==
    [parseOk |-> parseOk, title |-> title, message |-> message]

NotificationBodies ==
    { NotificationBody(TRUE, TXT_SALE, <<>>),
      NotificationBody(TRUE, TXT_SALE_PAD, TXT_SALE),
      NotificationBody(TRUE, TXT_BLANK, TXT_SALE),
      NotificationBody(TRUE, TXT_LONG_TITLE, <<>>),
      NotificationBody(TRUE, TXT_SALE, TXT_LONG_MESSAGE),
      NotificationBody(FALSE, TXT_SALE, <<>>) }

\* createNotification: the message of the 400 it answers, "" when none
NotificationError(body) ==
    IF ~body.parseOk THEN "invalid JSON body"
    ELSE IF Trim(body.title) = <<>> THEN "title is required"
    ELSE IF Len(Trim(body.title)) > TitleMaxLen
    THEN "title must be at most 80 characters"
    ELSE IF Len(Trim(body.message)) > MessageMaxLen
    THEN "message must be at most 280 characters"
    ELSE ""

FindNotification(ns, id) ==
    IF \E i \in 1..Len(ns) : ns[i].id = id
    THEN CHOOSE i \in 1..Len(ns) :
            /\ ns[i].id = id
            /\ \A j \in 1..Len(ns) : ns[j].id = id => i <= j
    ELSE 0

\* handler (notifications), POST: requireRole, createNotification
NotificationsPost(session, body) ==
    /\ adminOps < MaxAdminOps
    /\ adminOps' = adminOps + 1
    /\ LET denied == requireRole(session, {"admin"})
           err == NotificationError(body)
       IN  IF denied # 0
           THEN /\ last' = Response("createNotification", denied, RoleMessage(denied))
                /\ UNCHANGED <<notifications, nextId>>
           ELSE IF err # ""
           THEN /\ last' = Response("createNotification", 400, err)
                /\ UNCHANGED <<notifications, nextId>>
           ELSE /\ notifications' =
                    << [id |-> nextId + 1, title |-> Trim(body.title),
                        message |-> Trim(body.message)] >> \o notifications
                /\ nextId' = nextId + 1
                /\ last' = Response("createNotification", 201, "")
    /\ UNCHANGED <<client, disk, chat, flowers, orders, pc, loc, overlapped, orderReqs, authVars, settings>>

\* handler (notifications), DELETE: requireRole, deleteNotification
NotificationsDelete(session, notificationId) ==
    /\ adminOps < MaxAdminOps
    /\ adminOps' = adminOps + 1
    /\ LET denied == requireRole(session, {"admin"})
           index == FindNotification(notifications, notificationId)
       IN  IF denied # 0
           THEN /\ last' = Response("deleteNotification", denied, RoleMessage(denied))
                /\ UNCHANGED notifications
           ELSE IF index = 0
           THEN /\ last' = Response("deleteNotification", 404, "notification not found")
                /\ UNCHANGED notifications
           ELSE /\ notifications' = RemoveAt(notifications, index)
                /\ last' = Response("deleteNotification", 200, "")
    /\ UNCHANGED <<client, disk, chat, flowers, orders, pc, loc, overlapped, nextId, orderReqs,
                   authVars, settings>>

\* handler (notifications), GET: listNotifications, open to every request
NotificationsGet(session) ==
    /\ last' = Response("listNotifications", 200, "")
    /\ UNCHANGED <<client, disk, chat, flowers, orders, pc, loc, overlapped, nextId, orderReqs, adminOps,
                   authVars, siteVars>>

\* normalizeHeroImage: the message of the error it throws, "" when none
HeroImageError(value) ==
    IF Trim(value) = <<>> THEN "heroImage is required"
    ELSE IF UrlProtocol(Trim(value)) = <<>>
    THEN "heroImage must be a valid http/https URL"
    ELSE IF UrlProtocol(Trim(value)) \notin IMAGE_PROTOCOLS
    THEN "heroImage must use http or https"
    ELSE ""

SettingsBodies ==
    {[parseOk |-> TRUE, heroImage |-> u] :
        u \in {TXT_URL, TXT_URL_PAD, TXT_URL_UP, TXT_URL_FTP, TXT_NOT_URL, <<>>}}
    \cup {[parseOk |-> FALSE, heroImage |-> TXT_URL]}

\* handler (settings), PATCH: requireRole, updateSettings
SettingsPatch(session, body) ==
    /\ adminOps < MaxAdminOps
    /\ adminOps' = adminOps + 1
    /\ LET denied == requireRole(session, {"admin"})
       IN  IF denied # 0
           THEN /\ last' = Response("updateSettings", denied, RoleMessage(denied))
                /\ UNCHANGED settings
           ELSE IF ~body.parseOk
           THEN /\ last' = Response("updateSettings", 400, "invalid JSON body")
                /\ UNCHANGED settings
           ELSE IF HeroImageError(body.heroImage) # ""
           THEN /\ last' = Response("updateSettings", 400,
                                    HeroImageError(body.heroImage))
                /\ UNCHANGED settings
           ELSE /\ settings' = [heroImage |-> Trim(body.heroImage)]
                /\ last' = Response("updateSettings", 200, "")
    /\ UNCHANGED <<client, disk, chat, flowers, orders, pc, loc, overlapped, nextId, orderReqs,
                   authVars, notifications>>

\* handler (settings), GET: listSettings, open to every request
SettingsGet(session) ==
    /\ last' = Response("listSettings", 200, "")
    /\ UNCHANGED <<client, disk, chat, flowers, orders, pc, loc, overlapped, nextId, orderReqs, adminOps,
                   authVars, siteVars>>

\* handler (flowers), GET: listFlowers, open to every request
FlowersGet(session) ==
    /\ last' = Response("listFlowers", 200, "")
    /\ UNCHANGED <<client, disk, chat, flowers, orders, pc, loc, overlapped, nextId, orderReqs, adminOps,
                   authVars, siteVars>>

\* handler (orders), GET: requireRole, listOrders
OrdersGet(session) ==
    /\ LET denied == requireRole(session, {"admin"})
       IN  last' = IF denied # 0
                   THEN Response("listOrders", denied, RoleMessage(denied))
                   ELSE Response("listOrders", 200, "")
    /\ UNCHANGED <<client, disk, chat, flowers, orders, pc, loc, overlapped, nextId, orderReqs, adminOps,
                   authVars, siteVars>>

---------------------------------------------------------------------------
\* In-memory store, the revision of the orders endpoint in src/api/orders.js:
\* validateOrderPayload passes the raw items on, createOrderInMemory checks and
\* decrements them line by line; the endpoint has POST and GET only

\* validateOrderPayload: the message of the error it throws, "" when none
legacyValidateOrderPayload(body) ==
    IF ~body.hasCustomer THEN "customer details are required"
    ELSE IF \/ Trim(body.customer.name) = <<>>
            \/ Trim(body.customer.email) = <<>>
            \/ Trim(body.customer.address) = <<>>
    THEN "customer.name, customer.email and customer.address are required"
    ELSE IF ~body.itemsIsArray \/ body.items = <<>>
    THEN "at least one cart item is required"
    ELSE ""

\* The loop's outcome for one raw item: 400 (invalid cart item), 404, 409 or
\* 0 (pushed). Quantities are whole numbers here, which Math.floor leaves as
\* they are.
legacyItemStatus(fl, item) ==
    IF item.flowerId = "" \/ item.quantity <= 0 THEN 400
    ELSE IF FlowerIndex(fl, item.flowerId) = 0 THEN 404
    ELSE IF fl[FlowerIndex(fl, item.flowerId)].stock < item.quantity THEN 409
    ELSE 0

\* The first raw item on which the loop throws, 0 when none
legacyFirstRejected(fl, items) ==
    LET bad == {i \in 1..Len(items) : legacyItemStatus(fl, items[i]) # 0}
    IN  IF bad = {} THEN 0
        ELSE CHOOSE i \in bad : \A j \in bad : i <= j

\* createOrderInMemory(payload) of that revision on flower list fl
legacyCreateOrderInMemory(fl, items) ==
    LET rejected == legacyFirstRejected(fl, items)
        lines == NormalizedItems(fl, items)
    IN  IF rejected = 0
        THEN [status |-> 201, message |-> "", about |-> <<>>,
              flowers |-> DecrementStock(fl, lines), lines |-> lines]
        ELSE IF legacyItemStatus(fl, items[rejected]) = 400
        THEN [status |-> 400, message |-> "invalid cart item payload",
              about |-> <<>>, flowers |-> fl, lines |-> <<>>]
        ELSE [status |-> legacyItemStatus(fl, items[rejected]),
              message |-> RejectionMessage(fl, items[rejected]).message,
              about |-> RejectionMessage(fl, items[rejected]).about,
              flowers |-> fl, lines |-> <<>>]

\* createOrder of that revision after the body arrived
legacyCreateOrderOutcome(fl, body) ==
    IF ~body.parseOk
    THEN [status |-> 400, message |-> "invalid JSON body", about |-> <<>>,
          flowers |-> fl, lines |-> <<>>]
    ELSE IF legacyValidateOrderPayload(body) # ""
    THEN [status |-> 400, message |-> legacyValidateOrderPayload(body),
          about |-> <<>>, flowers |-> fl, lines |-> <<>>]
    ELSE legacyCreateOrderInMemory(fl, body.items)

\* The order object that revision pushes
legacyOrderRecord(id, body, lines) ==
    [id |-> id,
     customer |-> [name |-> Trim(body.customer.name),
                   email |-> Trim(body.customer.email),
                   address |-> Trim(body.customer.address)],
     items |-> lines,
     total |-> SumLineTotals(lines)]

LegacyCreateOrder(r, body) ==
    /\ pc[r] = "body"
    /\ pc' = [pc EXCEPT ![r] = "idle"]
    /\ LET out == legacyCreateOrderOutcome(flowers, body)
       IN  /\ last' = [Response("createOrder", out.status, out.message)
                            EXCEPT !.about = out.about]
           /\ flowers' = out.flowers
           /\ IF out.status = 201
              THEN /\ orders' = Append(orders,
                        legacyOrderRecord(nextId + 1, body, out.lines))
                   /\ nextId' = nextId + 1
              ELSE UNCHANGED <<orders, nextId>>
    /\ UNCHANGED <<client, disk, chat, loc, overlapped, orderReqs, adminOps, authVars, siteVars>>

NextLegacy ==
    \/ \E r \in Requests, session \in Sessions : OrdersPost(r, session)
    \/ \E r \in Requests, body \in OrderBodies : LegacyCreateOrder(r, body)
    \/ FlowerWrite

SpecLegacy == Init /\ [][NextLegacy]_vars

---------------------------------------------------------------------------
\* Remote-table store: POST /orders through createOrderInDb. `flowers` is the
\* flowers table (already seeded, so ensureSeedFlowers only reads), `orders`
\* the orders table joined with order_items, loc[r] the locals of request r.
\* Each dbRequest is one step, which the remote side may fail; the code between
\* two awaits runs with the step that resumes it.

\* Item lists submitted to the remote-table store
DbItemLists ==
    { OneRose,
      TooManyLilies,
      << [flowerId |-> "pure-lily", quantity |-> 4],
         [flowerId |-> "rose-red", quantity |-> 8] >>,
      << [flowerId |-> "pure-lily", quantity |-> 4],
         [flowerId |-> "pure-lily", quantity |-> 4] >>,
      << [flowerId |-> "ghost", quantity |-> 4] >> }

DbBodies ==
    {Body(GoodCustomer, items, PAYPAL) : items \in DbItemLists}
    \cup {Body([GoodCustomer EXCEPT !.phone = TXT_PHONE_ABC], OneRose, PAYPAL)}

DbSubmissions == {sub \in Submissions : sub.body \in DbBodies}

DbStages == {"read", "patch", "postOrder", "postItems"}

\* The locals of createOrderInDb: payload, the flower rows as read, flowerMap
\* (whose stock the PATCH loop lowers), normalizedItems, the index of the PATCH
\* awaited, orderId
DbLocals(payload) ==
    [payload |-> payload, read |-> <<>>, flowerMap |-> <<>>, lines |-> <<>>,
     k |-> 0, orderId |-> 0]

\* dbRequest throws an Error without status: createOrder answers 400
DbFailure(r) ==
    /\ last' = Response("createOrder", 400, "database request failed")
    /\ pc' = [pc EXCEPT ![r] = "idle"]
    /\ loc' = [loc EXCEPT ![r] = NoLocals[r]]

\* flower = flowerMap.get(item.flowerId); flower.stock -= item.quantity
TakeLine(flowerMap, line) ==
    [flowerMap EXCEPT ![FlowerIndex(flowerMap, line.flowerId)].stock =
        StockAfter(@, line.quantity)]

\* PATCH flowers?id=eq.<id> with body { stock }: every row of that id gets the
\* stock of the body
DbPatchRows(rows, id, stock) ==
    [i \in 1..Len(rows) |->
        IF rows[i].id = id THEN [rows[i] EXCEPT !.stock = stock] ELSE rows[i]]

\* createOrder from the arrival of the body to the first dbRequest of
\* createOrderInDb
DbValidate(r, sub) ==
    /\ pc[r] = "body"
    /\ IF ~sub.body.parseOk
       THEN /\ last' = Response("createOrder", 400, "invalid JSON body")
            /\ pc' = [pc EXCEPT ![r] = "idle"]
            /\ loc' = loc
       ELSE IF ~sub.payload.ok
       THEN /\ last' = Response("createOrder", 400, sub.payload.message)
            /\ pc' = [pc EXCEPT ![r] = "idle"]
            /\ loc' = loc
       ELSE /\ pc' = [pc EXCEPT ![r] = "read"]
            /\ loc' = [loc EXCEPT ![r] = DbLocals(sub.payload)]
            /\ last' = last
    /\ UNCHANGED <<client, disk, chat, flowers, orders, overlapped, nextId, orderReqs, adminOps, authVars, siteVars>>

\* ensureSeedFlowers and GET flowers answer; the validation loop runs; the
\* first PATCH is sent
DbReadFlowers(r, ok) ==
    /\ pc[r] = "read"
    /\ IF ~ok THEN DbFailure(r)
       ELSE LET items == loc[r].payload.items
                rejected == FirstRejected(flowers, items)
                lines == NormalizedItems(flowers, items)
            IN  IF rejected # 0
                THEN /\ last' = [Response("createOrder",
                                    ItemStatus(flowers, items[rejected]),
                                    RejectionMessage(flowers, items[rejected]).message)
                                 EXCEPT !.about =
                                    RejectionMessage(flowers, items[rejected]).about]
                     /\ pc' = [pc EXCEPT ![r] = "idle"]
                     /\ loc' = [loc EXCEPT ![r] = NoLocals[r]]
                ELSE /\ pc' = [pc EXCEPT ![r] = "patch"]
                     /\ loc' = [loc EXCEPT ![r] =
                            [@ EXCEPT !.read = flowers,
                                      !.flowerMap = TakeLine(flowers, lines[1]),
                                      !.lines = lines,
                                      !.k = 1]]
                     /\ last' = last
    /\ UNCHANGED <<client, disk, chat, flowers, orders, overlapped, nextId, orderReqs, adminOps, authVars, siteVars>>

\* The PATCH of line k answers; the next PATCH, or POST orders, is sent
DbPatchStock(r, ok) ==
    /\ pc[r] = "patch"
    /\ IF ~ok THEN DbFailure(r) /\ UNCHANGED flowers
       ELSE LET l == loc[r]
                line == l.lines[l.k]
                flower == l.flowerMap[FlowerIndex(l.flowerMap, line.flowerId)]
            IN  /\ flowers' = DbPatchRows(flowers, line.flowerId, flower.stock)
                /\ last' = last
                /\ IF l.k < Len(l.lines)
                   THEN /\ pc' = pc
                        /\ loc' = [loc EXCEPT ![r] =
                                [@ EXCEPT !.k = l.k + 1,
                                          !.flowerMap =
                                            TakeLine(l.flowerMap, l.lines[l.k + 1])]]
                   ELSE /\ pc' = [pc EXCEPT ![r] = "postOrder"]
                        /\ loc' = loc
    /\ UNCHANGED <<client, disk, chat, orders, overlapped, nextId, orderReqs, adminOps, authVars, siteVars>>

\* POST orders answers; POST order_items is sent
DbPostOrder(r, ok) ==
    /\ pc[r] = "postOrder"
    /\ IF ~ok THEN DbFailure(r) /\ UNCHANGED <<orders, nextId>>
       ELSE /\ orders' = Append(orders,
                    OrderRecord(nextId + 1, loc[r].payload, <<>>))
            /\ nextId' = nextId + 1
            /\ loc' = [loc EXCEPT ![r].orderId = nextId + 1]
            /\ pc' = [pc EXCEPT ![r] = "postItems"]
            /\ last' = last
    /\ UNCHANGED <<client, disk, chat, flowers, overlapped, orderReqs, adminOps, authVars, siteVars>>

\* POST order_items answers; createOrder answers 201
DbPostItems(r, ok) ==
    /\ pc[r] = "postItems"
    /\ IF ~ok THEN DbFailure(r) /\ UNCHANGED orders
       ELSE /\ orders' = [orders EXCEPT
                    ![FindOrder(orders, loc[r].orderId)].items = loc[r].lines]
            /\ last' = Response("createOrder", 201, "")
            /\ pc' = [pc EXCEPT ![r] = "idle"]
            /\ loc' = [loc EXCEPT ![r] = NoLocals[r]]
    /\ UNCHANGED <<client, disk, chat, flowers, overlapped, nextId, orderReqs, adminOps, authVars, siteVars>>

NextDb ==
    \/ \E r \in Requests, session \in Sessions : OrdersPost(r, session)
    \/ \E r \in Requests, sub \in DbSubmissions : DbValidate(r, sub)
    \/ \E r \in Requests, ok \in BOOLEAN : DbReadFlowers(r, ok)
    \/ \E r \in Requests, ok \in BOOLEAN : DbPatchStock(r, ok)
    \/ \E r \in Requests, ok \in BOOLEAN : DbPostOrder(r, ok)
    \/ \E r \in Requests, ok \in BOOLEAN : DbPostItems(r, ok)

SpecDb == Init /\ [][NextDb]_vars

---------------------------------------------------------------------------
\* Sessions: login, the passing of time, and requests that present a cookie

MaxSessions == 1
MaxTicks == 3
TickSteps == {1, SESSION_TTL_SECONDS - 1}

LoginInputs ==
    { [parseOk |-> TRUE, email |-> ADMIN_EMAIL, password |-> PW_ADMIN],
      [parseOk |-> TRUE, email |-> TXT_ADMIN_EMAIL_PAD, password |-> PW_ADMIN],
      [parseOk |-> TRUE, email |-> CUSTOMER_EMAIL, password |-> PW_CUSTOMER],
      [parseOk |-> TRUE, email |-> ADMIN_EMAIL, password |-> PW_CUSTOMER],
      [parseOk |-> FALSE, email |-> ADMIN_EMAIL, password |-> PW_ADMIN] }

\* handler (auth/login)
Login(body) ==
    /\ Cardinality(issued) < MaxSessions + Len(users)
    /\ LET index == authenticateCredentials(body.email, body.password)
           local == findLocalUser(users, body.email, body.password)
       IN  IF ~authConfigured
           THEN /\ last' = Response("login", 503, "authentication is not configured")
                /\ UNCHANGED issued
           ELSE IF ~body.parseOk
           THEN /\ last' = Response("login", 400, "invalid JSON body")
                /\ UNCHANGED issued
           ELSE IF index = 0 /\ local = 0
           THEN /\ last' = Response("login", 401, "invalid email or password")
                /\ UNCHANGED issued
           ELSE /\ issued' = issued \cup
                    {setSessionCookie(IF index # 0 THEN getConfiguredUsers[index]
                                      ELSE users[local], now)}
                /\ last' = Response("login", 200, "")
    /\ UNCHANGED <<client, disk, chat, flowers, orders, pc, loc, overlapped, nextId, orderReqs, adminOps,
                   now, ticks, authConfigured, users, loggedOut, siteVars>>

\* Date.now() advances between requests
Tick(d) ==
    /\ ticks < MaxTicks
    /\ ticks' = ticks + 1
    /\ now' = now + d
    /\ UNCHANGED <<client, disk, chat, flowers, orders, pc, loc, last, overlapped, nextId, orderReqs,
                   adminOps, issued, authConfigured, users, loggedOut, siteVars>>

\* A token whose payload was edited after signing: the role, or the expiry
TamperRole(token) == [token EXCEPT !.payload.role = "admin"]
TamperExpiry(token) == [token EXCEPT !.payload.exp = @ + SESSION_TTL_SECONDS]

\* A well-formed admin token signed with another key
ForgedToken ==
    LET payload == [sub |-> "admin-1", email |-> ADMIN_EMAIL, role |-> "admin",
                    exp |-> StartTime + (MaxTicks + 1) * SESSION_TTL_SECONDS]
    IN  [parts |-> 3, payload |-> payload, signature |-> Hmac(OTHER_SECRET, payload)]

\* What a client can put in the session cookie
PresentedCookies ==
    {NO_COOKIE, GARBAGE_COOKIE, ForgedToken}
    \cup issued
    \cup {TamperRole(t) : t \in issued}
    \cup {TamperExpiry(t) : t \in issued}

AuthRequests == {1}
AuthSubmissions ==
    {s \in Submissions : s.body \in {Body(GoodCustomer, OneRose, PAYPAL),
                                      Body(GoodCustomer, TooManyLilies, PAYPAL),
                                      Body(GoodCustomer, <<>>, PAYPAL)}}
AuthCreateBodies == {OrchidBody}
AuthPatchBodies == {FlowerBody({"price", "stock"}, <<>>, 3999, <<>>, 2)}
AuthFlowerIds == {"rose-red"}
AuthOrderIds == {1}
AuthStatusInputs == {PAID, TXT_REFUNDED}
AuthNotificationBodies ==
    {NotificationBody(TRUE, TXT_SALE_PAD, TXT_SALE), NotificationBody(TRUE, TXT_BLANK, TXT_SALE)}
AuthNotificationIds == {1}
AuthSettingsBodies == {b \in SettingsBodies : b.heroImage \in {TXT_URL_PAD, TXT_URL_FTP}}

InitAuth ==
    /\ flowers = seedFlowers
    /\ orders = <<>>
    /\ pc = [r \in Requests |-> "idle"]
    /\ loc = NoLocals
    /\ last = Response("none", 0, "")
    /\ overlapped = FALSE
    /\ nextId = 0
    /\ orderReqs = 0
    /\ adminOps = 0
    /\ now = StartTime
    /\ ticks = 0
    /\ issued = {}
    /\ authConfigured \in BOOLEAN
    /\ users = <<>>
    /\ loggedOut = {}
    /\ notifications = <<>>
    /\ settings = [heroImage |-> DEFAULT_HERO_IMAGE]
    /\ chat = ChatIdle(FALSE)
    /\ disk = DiskIdle
    /\ client = ClientIdle

NextAuth ==
    \/ \E body \in LoginInputs : Login(body)
    \/ \E d \in TickSteps : Tick(d)
    \/ \E c \in PresentedCookies : FlowersGet(getSessionUser(c, now))
    \/ \E c \in PresentedCookies : NotificationsGet(getSessionUser(c, now))
    \/ \E c \in PresentedCookies : SettingsGet(getSessionUser(c, now))
    \/ \E c \in PresentedCookies : OrdersGet(getSessionUser(c, now))
    \/ \E r \in AuthRequests, c \in PresentedCookies :
            OrdersPost(r, getSessionUser(c, now))
    \/ \E r \in AuthRequests, sub \in AuthSubmissions : CreateOrder(r, sub)
    \/ \E c \in PresentedCookies, body \in AuthCreateBodies :
            FlowersPost(getSessionUser(c, now), body)
    \/ \E c \in PresentedCookies, id \in AuthFlowerIds, body \in AuthPatchBodies :
            FlowersPatch(getSessionUser(c, now), id, body)
    \/ \E c \in PresentedCookies, id \in AuthFlowerIds :
            FlowersDelete(getSessionUser(c, now), id)
    \/ \E c \in PresentedCookies, id \in AuthOrderIds, st \in AuthStatusInputs :
            OrdersPatch(getSessionUser(c, now), id, st)
    \/ \E c \in PresentedCookies, body \in AuthNotificationBodies :
            NotificationsPost(getSessionUser(c, now), body)
    \/ \E c \in PresentedCookies, id \in AuthNotificationIds :
            NotificationsDelete(getSessionUser(c, now), id)
    \/ \E c \in PresentedCookies, body \in AuthSettingsBodies :
            SettingsPatch(getSessionUser(c, now), body)

SpecAuth == InitAuth /\ [][NextAuth]_vars

---------------------------------------------------------------------------
\* Orders of large quantities: the admin restocks, customers order up to the
\* per-item limit and repeat flower ids

RestockBodies == {[NoFields EXCEPT !.has = {"stock"}, !.stock = Num(st)] : st \in {150, 250}}

LargeItemLists ==
    { << [flowerId |-> "rose-red", quantity |-> MaxItemQuantity] >>,
      << [flowerId |-> "rose-red", quantity |-> MaxItemQuantity + 1] >>,
      << [flowerId |-> "rose-red", quantity |-> 60],
         [flowerId |-> "rose-red", quantity |-> 60] >>,
      << [flowerId |-> "rose-red", quantity |-> MaxItemQuantity],
         [flowerId |-> "pure-lily", quantity |-> 1],
         [flowerId |-> "rose-red", quantity |-> MaxItemQuantity] >>,
      << [flowerId |-> "rose-red", quantity |-> 8],
         [flowerId |-> "pure-lily", quantity |-> 4] >> }

LargeSubmissions ==
    {[body |-> Body(GoodCustomer, items, PAYPAL),
      payload |-> validateOrderPayload(Body(GoodCustomer, items, PAYPAL))] :
        items \in LargeItemLists}

NextLarge ==
    \/ \E body \in RestockBodies : FlowersPatch("admin", "rose-red", body)
    \/ \E r \in Requests : OrdersPost(r, "customer")
    \/ \E r \in Requests, sub \in LargeSubmissions : CreateOrder(r, sub)

SpecLarge == Init /\ [][NextLarge]_vars

---------------------------------------------------------------------------
\* The Express server with the data file: POST /api/orders, readData, writeData

MaxFilePosts == 3

FileItemLists ==
    { OneRose, TooManyLilies, << [flowerId |-> "pure-lily", quantity |-> 4] >> }

\* normalizeOrderPayload of the Express server makes the checks of
\* validateOrderPayload in the same order, with the same messages and result
FileSubmissions ==
    {[body |-> b, payload |-> validateOrderPayload(b)] :
        b \in {Body(GoodCustomer, items, PAYPAL) : items \in FileItemLists}
              \cup {Body([GoodCustomer EXCEPT !.phone = TXT_PHONE_ABC], OneRose, PAYPAL)}}

\* Every step of the Express server leaves the serverless API and the client alone
FileFrame ==
    UNCHANGED <<client, chat, flowers, orders, pc, loc, overlapped, nextId, orderReqs,
                adminOps, authVars, siteVars>>

\* writeData(data): writeQueue = writeQueue.then(write) adds a link to the
\* chain; on a rejected chain the link is rejected and its write never runs
writeData(jobs, rejected, job) ==
    Append(jobs, [job EXCEPT !.state = IF rejected THEN "rejected" ELSE "queued"])

\* Variant of the chain in which a write does not wait for the earlier ones
CanStart_Unchained(jobs, k) == jobs[k].state = "queued"

\* writeQueue.then(() => fs.writeFile(...)): the callback of link k runs once
\* the promise it was attached to, that of link k - 1, is fulfilled
CanStart(jobs, k) ==
    /\ jobs[k].state = "queued"
    /\ \A j \in 1..(k - 1) : jobs[j].state = "done"

\* The request is over: its locals are gone
FileRequestDone == [pc |-> "idle", payload |-> <<>>, job |-> 0]

\* app.post("/api/orders") up to `await readData()`
FilePost(r, sub) ==
    /\ disk.req[r].pc = "idle"
    /\ disk.posts < MaxFilePosts
    /\ IF ~sub.payload.ok
       THEN /\ disk' = [disk EXCEPT !.posts = @ + 1]
            /\ last' = Response("filePost", 400, sub.payload.message)
       ELSE /\ disk' = [disk EXCEPT !.posts = @ + 1,
                                    !.req[r] = [pc |-> "read", payload |-> sub.payload,
                                                job |-> 0]]
            /\ last' = last
    /\ FileFrame

\* readData() settles; on a value the handler runs on to `await writeData(data)`:
\* the stock checks, the decrements and the push on its own copy of the store
FileRead(r, ok) ==
    /\ disk.req[r].pc = "read"
    /\ LET payload == disk.req[r].payload
           out == createOrderInMemory(disk.file.flowers, payload)
           order == OrderRecord(Len(disk.jobs) + 1, payload, out.lines)
           data == [flowers |-> out.flowers, orders |-> Append(disk.file.orders, order)]
           job == [by |-> r, data |-> data, order |-> order, state |-> "queued"]
       IN  IF ~ok
           THEN /\ disk' = [disk EXCEPT !.req[r] = FileRequestDone]
                /\ last' = Response("filePost", 500, "internal server error")
           ELSE IF out.status # 201
           THEN /\ disk' = [disk EXCEPT !.req[r] = FileRequestDone]
                /\ last' = [Response("filePost", out.status, out.message)
                                EXCEPT !.about = out.about]
           ELSE IF disk.rejected
           THEN /\ disk' = [disk EXCEPT !.jobs = writeData(@, TRUE, job),
                                        !.req[r] = FileRequestDone]
                /\ last' = Response("filePost", 500, "internal server error")
           ELSE /\ disk' = [disk EXCEPT !.jobs = writeData(@, FALSE, job),
                                        !.req[r].pc = "write",
                                        !.req[r].job = Len(disk.jobs) + 1]
                /\ last' = last
    /\ FileFrame

\* The callback of link k runs: fs.writeFile starts
FileWriteStart(k) ==
    /\ k \in 1..Len(disk.jobs)
    /\ CanStart(disk.jobs, k)
    /\ disk' = [disk EXCEPT !.jobs[k].state = "writing"]
    /\ last' = last
    /\ FileFrame

\* fs.writeFile of link k settles. Fulfilled: the file holds the data of the
\* link and its request answers 201. Rejected: the chain is rejected from here
\* on, every link behind is rejected without running, and the requests
\* awaiting them answer 500
FileWriteEnd(k, ok) ==
    /\ k \in 1..Len(disk.jobs)
    /\ disk.jobs[k].state = "writing"
    /\ IF ok
       THEN /\ disk' = [disk EXCEPT !.file = disk.jobs[k].data,
                                    !.jobs[k].state = "done",
                                    !.req[disk.jobs[k].by] = FileRequestDone,
                                    !.accepted = Append(@, disk.jobs[k].order)]
            /\ last' = Response("filePost", 201, "")
       ELSE /\ disk' = [disk EXCEPT
                    !.jobs = [j \in 1..Len(disk.jobs) |->
                                IF j = k THEN [disk.jobs[j] EXCEPT !.state = "failed"]
                                ELSE IF j > k /\ disk.jobs[j].state = "queued"
                                THEN [disk.jobs[j] EXCEPT !.state = "rejected"]
                                ELSE disk.jobs[j]],
                    !.rejected = TRUE,
                    !.req = [r \in Requests |->
                                IF disk.req[r].pc = "write" /\ disk.req[r].job >= k
                                THEN FileRequestDone ELSE disk.req[r]]]
            /\ last' = Response("filePost", 500, "internal server error")
    /\ FileFrame

NextFile ==
    \/ \E r \in Requests, sub \in FileSubmissions : FilePost(r, sub)
    \/ \E r \in Requests, ok \in BOOLEAN : FileRead(r, ok)
    \/ \E k \in 1..MaxFilePosts : FileWriteStart(k)
    \/ \E k \in 1..MaxFilePosts, ok \in BOOLEAN : FileWriteEnd(k, ok)

SpecFile == Init /\ [][NextFile]_vars

---------------------------------------------------------------------------
\* The client: the cart of App.jsx and the order it places

MaxUnrendered == 2
MaxShopOrders == 1

\* Every step of the client leaves the rest of the server alone
ClientFrame ==
    UNCHANGED <<disk, chat, pc, loc, overlapped, orderReqs, adminOps, authVars, siteVars>>

\* The fields of the catalog the cart handlers read
DisplayedFlowers(fl) == [i \in 1..Len(fl) |-> [id |-> fl[i].id, stock |-> fl[i].stock]]

\* Number(previous[flower.id] || 0)
CartQuantity(cart, id) ==
    IF \E i \in 1..Len(cart) : cart[i].flowerId = id
    THEN cart[CHOOSE i \in 1..Len(cart) : cart[i].flowerId = id].quantity
    ELSE 0

CartIds(cart) == {cart[i].flowerId : i \in 1..Len(cart)}

\* const { [flower.id]: _removed, ...rest } = previous
WithoutEntry(cart, id) == SelectSeq(cart, LAMBDA e : e.flowerId # id)

\* { ...previous, [flower.id]: nextQty }: an object keeps the insertion order
\* of its keys
WithEntry(cart, id, quantity) ==
    IF id \in CartIds(cart)
    THEN [i \in 1..Len(cart) |->
            IF cart[i].flowerId = id THEN [cart[i] EXCEPT !.quantity = quantity]
            ELSE cart[i]]
    ELSE Append(cart, [flowerId |-> id, quantity |-> quantity])

\* Variant of the updater of adjustCart without the comparison with the stock
adjustCart_NoStockLimit(previous, flower, delta) ==
    LET nextQty == CartQuantity(previous, flower.id) + delta
    IN  IF nextQty <= 0 THEN WithoutEntry(previous, flower.id)
        ELSE WithEntry(previous, flower.id, nextQty)

\* adjustCart(flower, delta): the updater it hands to setCart
adjustCart(previous, flower, delta) ==
    LET nextQty == CartQuantity(previous, flower.id) + delta
    IN  IF nextQty <= 0 THEN WithoutEntry(previous, flower.id)
        ELSE IF nextQty > flower.stock THEN previous
        ELSE WithEntry(previous, flower.id, nextQty)

\* cartItems: the entries of the cart whose flower is in the catalog
cartItems(cart, fl) ==
    SelectSeq(cart, LAMBDA e : \E i \in 1..Len(fl) : fl[i].id = e.flowerId)

\* A flower of the rendered page
Rendered(id) ==
    client.seen.flowers[CHOOSE i \in 1..Len(client.seen.flowers) :
                            client.seen.flowers[i].id = id]

IsRendered(id) == \E i \in 1..Len(client.seen.flowers) : client.seen.flowers[i].id = id

\* refreshFlowers(): setFlowers(await getFlowers())
ClientRefresh ==
    /\ client.flowers # DisplayedFlowers(flowers)
    /\ client' = [client EXCEPT !.flowers = DisplayedFlowers(flowers)]
    /\ UNCHANGED <<flowers, orders, nextId, last>>
    /\ ClientFrame

\* React renders the component again with the state of now
ClientRender ==
    /\ client.seen # [flowers |-> client.flowers, cart |-> client.cart]
           \/ client.unrendered > 0
    /\ client' = [client EXCEPT
            !.seen = [flowers |-> client.flowers, cart |-> client.cart],
            !.unrendered = 0,
            !.moved = (@ \cup {id \in CartIds(client.cart) :
                                \/ ~IsRendered(id)
                                \/ \E i \in 1..Len(client.flowers) :
                                        /\ client.flowers[i].id = id
                                        /\ client.flowers[i].stock # Rendered(id).stock})
                       \cap CartIds(client.cart)]
    /\ UNCHANGED <<flowers, orders, nextId, last>>
    /\ ClientFrame

\* addToCart(flower), from the card of a flower of the rendered page
ClientAddToCart(id) ==
    /\ IsRendered(id)
    /\ client.unrendered < MaxUnrendered
    /\ LET flower == Rendered(id)
           currentQty == CartQuantity(client.seen.cart, id)
           cart == IF flower.stock <= 0 \/ currentQty >= flower.stock
                   THEN client.cart
                   ELSE adjustCart(client.cart, flower, 1)
       IN  client' = [client EXCEPT !.cart = cart,
                                    !.unrendered = @ + 1,
                                    !.moved = @ \cap CartIds(cart)]
    /\ UNCHANGED <<flowers, orders, nextId, last>>
    /\ ClientFrame

\* adjustCart(item.flower, delta), from the + and - buttons of a cart line of
\* the rendered page
ClientAdjustCart(id, delta) ==
    /\ id \in CartIds(cartItems(client.seen.cart, client.seen.flowers))
    /\ client.unrendered < MaxUnrendered
    /\ LET cart == adjustCart(client.cart, Rendered(id), delta)
       IN  client' = [client EXCEPT !.cart = cart,
                                    !.unrendered = @ + 1,
                                    !.moved = @ \cap CartIds(cart)]
    /\ UNCHANGED <<flowers, orders, nextId, last>>
    /\ ClientFrame

\* handlePlaceOrder up to `await createOrder(...)`, by a signed-in customer
\* with valid details in the form
ClientPlaceOrder ==
    /\ ~client.submitting
    /\ client.placed < MaxShopOrders
    /\ cartItems(client.seen.cart, client.seen.flowers) # <<>>
    /\ client' = [client EXCEPT
            !.submitting = TRUE,
            !.sent = cartItems(client.seen.cart, client.seen.flowers),
            !.answer = 0,
            !.placed = @ + 1]
    /\ UNCHANGED <<flowers, orders, nextId, last>>
    /\ ClientFrame

\* The order the client has sent, as the server receives it
ClientSubmission ==
    [body |-> Body(GoodCustomer, client.sent, CASH),
     payload |-> validateOrderPayload(Body(GoodCustomer, client.sent, CASH))]

\* The request of the client is handled by the server (createOrder of
\* orders.js, whole), or it never gets there and fetch rejects
ClientOrderServed(reached) ==
    /\ client.submitting
    /\ client.answer = 0
    /\ IF ~reached
       THEN /\ client' = [client EXCEPT !.answer = 503]
            /\ UNCHANGED <<flowers, orders, nextId, last>>
       ELSE LET denied == requireRole("customer", {"admin", "customer"})
                out == CreateOrderOutcome(flowers, ClientSubmission)
            IN  IF denied # 0
                THEN /\ client' = [client EXCEPT !.answer = denied]
                     /\ last' = Response("createOrder", denied, RoleMessage(denied))
                     /\ UNCHANGED <<flowers, orders, nextId>>
                ELSE /\ client' = [client EXCEPT !.answer = out.status]
                     /\ last' = [Response("createOrder", out.status, out.message)
                                    EXCEPT !.about = out.about]
                     /\ flowers' = out.flowers
                     /\ IF out.status = 201
                        THEN /\ orders' = Append(orders,
                                    OrderRecord(nextId + 1, ClientSubmission.payload,
                                                out.lines))
                             /\ nextId' = nextId + 1
                        ELSE UNCHANGED <<orders, nextId>>
    /\ ClientFrame

\* `await createOrder(...)` settles: setCart({}) after a 201, the catch
\* otherwise; setSubmittingOrder(false) in both
ClientOrderSettled ==
    /\ client.submitting
    /\ client.answer # 0
    /\ client' = [client EXCEPT
            !.submitting = FALSE,
            !.cart = IF client.answer = 201 THEN <<>> ELSE @,
            !.moved = IF client.answer = 201 THEN {} ELSE @]
    /\ UNCHANGED <<flowers, orders, nextId, last>>
    /\ ClientFrame

\* The flowers the customer of the model clicks on
ShopFlowers == {"pure-lily"}

NextClient ==
    \/ ClientRefresh
    \/ ClientRender
    \/ \E id \in ShopFlowers : ClientAddToCart(id)
    \/ \E id \in ShopFlowers, delta \in {1, -1} : ClientAdjustCart(id, delta)
    \/ ClientPlaceOrder
    \/ \E reached \in BOOLEAN : ClientOrderServed(reached)
    \/ ClientOrderSettled

SpecClient == Init /\ [][NextClient]_vars

\* The client of a shop whose admin has restocked the roses beyond the
\* quantity the server takes in one cart item

LargeStockBodies ==
    {[NoFields EXCEPT !.has = {"stock"}, !.stock = Num(MaxItemQuantity + 1)]}

\* The customer builds the cart, orders, and waits for the answer
StillShopping == client.placed < MaxShopOrders /\ ~client.submitting

NextClientLarge ==
    \/ \E body \in LargeStockBodies :
            client = ClientIdle /\ FlowersPatch("admin", "rose-red", body)
    \/ ClientRefresh
    \/ ClientRender
    \/ StillShopping /\ ClientAddToCart("rose-red")
    \/ \E delta \in {1, -1} : StillShopping /\ ClientAdjustCart("rose-red", delta)
    \/ ClientPlaceOrder
    \/ \E reached \in BOOLEAN : ClientOrderServed(reached)
    \/ ClientOrderSettled

SpecClientLarge == Init /\ [][NextClientLarge]_vars

---------------------------------------------------------------------------
\* Accounts: signup, login, logout, and requests that present a cookie

MaxSignups == 2
MaxAccountTicks == 2
PasswordMinLen == 8

\* "Eve", "eve@example.com", "Secret123", "Secret1"
TXT_EVE == <<"E","v","e">>
EVE_EMAIL == <<"e","v","e","@","e","x","a","m","p","l","e",".","c","o","m">>
PW_NEW == <<"S","e","c","r","e","t","1","2","3">>
PW_SHORT == <<"S","e","c","r","e","t","1">>

\* createId(12) for the users: random, taken to be fresh each time
UserIds == <<"user-1", "user-2", "user-3">>

\* The body of a signup request; `role` is a field registerCustomer never reads
SignupBody(name, email, password, role) ==
    [parseOk |-> TRUE, name |-> name, email |-> email, password |-> password,
     role |-> role]

SignupBodies ==
    { SignupBody(TXT_ANA_PAD, TXT_EMAIL, PW_NEW, "customer"),
      SignupBody(TXT_EVE, EVE_EMAIL, PW_NEW, "admin"),
      SignupBody(TXT_EVE, TXT_EMAIL_UP, PW_CUSTOMER, "customer"),
      SignupBody(TXT_EVE, TXT_ADMIN_EMAIL_PAD, PW_NEW, "admin"),
      SignupBody(TXT_A, TXT_EMAIL, PW_NEW, "customer"),
      SignupBody(TXT_ANA, TXT_EMAIL, PW_SHORT, "customer"),
      SignupBody(TXT_ANA, TXT_EMAIL_NOAT, PW_NEW, "customer"),
      [SignupBody(TXT_ANA, TXT_EMAIL, PW_NEW, "customer") EXCEPT !.parseOk = FALSE] }

\* Variant of registerCustomer that looks the email up as it was typed
SignupError_RawEmail(localUsers, body) ==
    LET normalizedName == Trim(body.name)
        normalizedEmail == normalizeEmail(body.email)
    IN  IF Len(normalizedName) < NameMinLen
        THEN "name must be at least 2 characters"
        ELSE IF ~EmailRegexTest(normalizedEmail) THEN "valid email is required"
        ELSE IF Len(body.password) < PasswordMinLen
        THEN "password must be at least 8 characters"
        ELSE IF \E i \in 1..Len(getConfiguredUsers) :
                    getConfiguredUsers[i].email = body.email
        THEN "email already exists"
        ELSE IF \E i \in 1..Len(localUsers) : localUsers[i].email = body.email
        THEN "email already exists"
        ELSE ""

\* registerCustomer: the message of the error it throws, "" when none
SignupError(localUsers, body) ==
    LET normalizedName == Trim(body.name)
        normalizedEmail == normalizeEmail(body.email)
    IN  IF Len(normalizedName) < NameMinLen
        THEN "name must be at least 2 characters"
        ELSE IF ~EmailRegexTest(normalizedEmail) THEN "valid email is required"
        ELSE IF Len(body.password) < PasswordMinLen
        THEN "password must be at least 8 characters"
        ELSE IF \E i \in 1..Len(getConfiguredUsers) :
                    getConfiguredUsers[i].email = normalizedEmail
        THEN "email already exists"
        ELSE IF \E i \in 1..Len(localUsers) : localUsers[i].email = normalizedEmail
        THEN "email already exists"
        ELSE ""

\* Variant of registerCustomer that takes the role from the request body
registerCustomer_RoleFromBody(localUsers, body) ==
    [id |-> UserIds[Len(localUsers) + 1], name |-> Trim(body.name),
     email |-> normalizeEmail(body.email), password |-> hashPassword(body.password),
     role |-> body.role]

\* registerCustomer: the user it pushes on store.users
registerCustomer(localUsers, body) ==
    [id |-> UserIds[Len(localUsers) + 1], name |-> Trim(body.name),
     email |-> normalizeEmail(body.email), password |-> hashPassword(body.password),
     role |-> "customer"]

\* handler (auth/signup)
Signup(body) ==
    /\ IF ~authConfigured
       THEN /\ last' = Response("signup", 503, "authentication is not configured")
            /\ UNCHANGED <<users, issued>>
       ELSE IF ~body.parseOk
       THEN /\ last' = Response("signup", 400, "invalid JSON body")
            /\ UNCHANGED <<users, issued>>
       ELSE IF SignupError(users, body) # ""
       THEN /\ last' = Response("signup", 400, SignupError(users, body))
            /\ UNCHANGED <<users, issued>>
       ELSE /\ Len(users) < MaxSignups
            /\ users' = Append(users, registerCustomer(users, body))
            /\ issued' = issued \cup {setSessionCookie(registerCustomer(users, body), now)}
            /\ last' = Response("signup", 201, "")
    /\ UNCHANGED <<client, disk, chat, flowers, orders, pc, loc, overlapped, nextId, orderReqs, adminOps,
                   now, ticks, authConfigured, loggedOut, siteVars>>

\* handler (auth/logout): clearSessionCookie answers with an empty cookie of
\* Max-Age 0; nothing on the server is read or written
Logout ==
    /\ last' = Response("logout", 200, "")
    /\ loggedOut' = issued
    /\ UNCHANGED <<client, disk, chat, flowers, orders, pc, loc, overlapped, nextId, orderReqs, adminOps,
                   now, ticks, issued, authConfigured, users, siteVars>>

\* handler (auth/session): the message stands for the role of the user it
\* returns, "none" for { authenticated: false }
SessionGet(session) ==
    /\ last' = Response("session", 200, session)
    /\ UNCHANGED <<client, disk, chat, flowers, orders, pc, loc, overlapped, nextId, orderReqs, adminOps,
                   authVars, siteVars>>

AccountLoginInputs ==
    { [parseOk |-> TRUE, email |-> ADMIN_EMAIL, password |-> PW_ADMIN],
      [parseOk |-> TRUE, email |-> ADMIN_EMAIL, password |-> PW_NEW],
      [parseOk |-> TRUE, email |-> TXT_EMAIL_UP, password |-> PW_NEW],
      [parseOk |-> TRUE, email |-> EVE_EMAIL, password |-> PW_NEW],
      [parseOk |-> TRUE, email |-> EVE_EMAIL, password |-> PW_ADMIN] }

\* The clock is read a session's lifetime later: a token handed out at the
\* previous reading is then at its expiry time, an older one is past it
AccountTickSteps == {SESSION_TTL_SECONDS}

\* The cookies a client presents: none, or a token it was handed
AccountCookies == {NO_COOKIE} \cup issued

NextAccounts ==
    \/ \E body \in SignupBodies : Signup(body)
    \/ \E body \in AccountLoginInputs : Login(body)
    \/ Logout
    \/ \E d \in AccountTickSteps : ticks < MaxAccountTicks /\ Tick(d)
    \/ \E c \in AccountCookies : SessionGet(getSessionUser(c, now))
    \/ \E c \in AccountCookies : OrdersGet(getSessionUser(c, now))

SpecAccounts == InitAuth /\ [][NextAccounts]_vars

---------------------------------------------------------------------------
\* Chat

MaxChats == 2

\* The timer of requestOpenAiChatReply is watched every so many milliseconds
ChatClockStep == 6000

ChatBody(parseOk, message) == [parseOk |-> parseOk, message |-> message]

ChatBodies ==
    {ChatBody(TRUE, m) : m \in {MSG_TEST, MSG_BUDGET, MSG_WHICH, MSG_CHEAP_SHIP,
                                MSG_COST_PAY, MSG_HELLO, MSG_WEDDING, MSG_GENERAL,
                                MSG_HUMAN, MSG_MORE, MSG_BLANK, MSG_LONG, <<>>}}
    \cup {ChatBody(FALSE, MSG_TEST)}

\* The frame of every chat step
ChatFrame ==
    UNCHANGED <<client, disk, flowers, orders, pc, loc, overlapped, nextId, orderReqs,
                adminOps, authVars, siteVars>>

\* json(res, 400, ...) of the chat handler
ChatRejected(message) ==
    /\ chat' = [chat EXCEPT !.count = @ + 1, !.status = 400, !.source = "none",
                            !.reply = NoReply, !.cause = "none", !.message = <<>>]
    /\ last' = Response("chat", 400, message)

\* generateChatReply returning the local reply, and json(res, 200, ...)
ChatLocal(message, cause) ==
    /\ chat' = [chat EXCEPT !.pc = "idle", !.count = @ + 1, !.status = 200,
                            !.source = "local", !.message = message, !.elapsed = 0,
                            !.reply = buildLocalChatReply(message, flowers),
                            !.cause = cause]
    /\ last' = Response("chat", 200, "")

\* generateChatReply returning the external reply, and json(res, 200, ...)
ChatOpenAi(text) ==
    /\ chat' = [chat EXCEPT !.pc = "idle", !.count = @ + 1, !.status = 200,
                            !.source = "openai", !.elapsed = 0,
                            !.reply = [Reply("openai", <<>>, <<>>) EXCEPT !.text = text],
                            !.cause = "returned"]
    /\ last' = Response("chat", 200, "")

\* handler (chat), up to the fetch of requestOpenAiChatReply
ChatPost(body) ==
    /\ chat.pc = "idle"
    /\ chat.count < MaxChats
    /\ IF ~body.parseOk THEN ChatRejected("invalid JSON body")
       ELSE IF ChatPayloadError(body) # "" THEN ChatRejected(ChatPayloadError(body))
       ELSE IF ~chat.configured THEN ChatLocal(Trim(body.message), "not-configured")
       ELSE /\ chat' = [chat EXCEPT !.pc = "fetch", !.message = Trim(body.message),
                                    !.elapsed = 0, !.status = 0, !.source = "none",
                                    !.reply = NoReply, !.cause = "none"]
            /\ last' = last
    /\ ChatFrame

\* Time passes while the fetch is pending
ChatElapse ==
    /\ chat.pc = "fetch"
    /\ chat.elapsed < CHAT_TIMEOUT_MS
    /\ chat' = [chat EXCEPT !.elapsed = @ + ChatClockStep]
    /\ last' = last
    /\ ChatFrame

\* The fetch returns before the timer aborts it
ChatFetchReturns(answer) ==
    /\ chat.pc = "fetch"
    /\ chat.elapsed <= CHAT_TIMEOUT_MS
    /\ IF OpenAiReplyText(answer) # <<>>
       THEN ChatOpenAi(OpenAiReplyText(answer))
       ELSE ChatLocal(chat.message, "returned")
    /\ ChatFrame

\* The fetch rejects (network error) before the timer aborts it
ChatFetchThrows ==
    /\ chat.pc = "fetch"
    /\ chat.elapsed <= CHAT_TIMEOUT_MS
    /\ ChatLocal(chat.message, "threw")
    /\ ChatFrame

\* setTimeout(() => controller.abort(), 12000) fires: the fetch rejects
ChatAbort ==
    /\ chat.pc = "fetch"
    /\ chat.elapsed >= CHAT_TIMEOUT_MS
    /\ ChatLocal(chat.message, "aborted")
    /\ ChatFrame

\* Catalogs the store can hold when a chat request arrives: the seed flowers,
\* the same with the cheapest sold out, with everything sold out, and none
SoldOut(fl, ids) ==
    [i \in 1..Len(fl) |-> IF fl[i].id \in ids THEN [fl[i] EXCEPT !.stock = 0] ELSE fl[i]]

ChatCatalogs ==
    { seedFlowers,
      SoldOut(seedFlowers, {"sunshine-tulip"}),
      SoldOut(seedFlowers, {"rose-red", "sunshine-tulip", "pure-lily", "pastel-peony"}),
      <<>> }

InitChat ==
    /\ flowers \in ChatCatalogs
    /\ orders = <<>>
    /\ pc = [r \in Requests |-> "idle"]
    /\ loc = NoLocals
    /\ last = Response("none", 0, "")
    /\ overlapped = FALSE
    /\ nextId = 0
    /\ orderReqs = 0
    /\ adminOps = 0
    /\ now = StartTime
    /\ ticks = 0
    /\ issued = {}
    /\ authConfigured = TRUE
    /\ users = <<>>
    /\ loggedOut = {}
    /\ notifications = <<>>
    /\ settings = [heroImage |-> DEFAULT_HERO_IMAGE]
    /\ \E configured \in BOOLEAN : chat = ChatIdle(configured)
    /\ disk = DiskIdle
    /\ client = ClientIdle

NextChat ==
    \/ \E body \in ChatBodies : ChatPost(body)
    \/ ChatElapse
    \/ \E answer \in ProviderAnswers : ChatFetchReturns(answer)
    \/ ChatFetchThrows
    \/ ChatAbort

\* The timer runs: time passes, and at the deadline the abort fires
SpecChat == InitChat /\ [][NextChat]_vars /\ WF_vars(ChatElapse \/ ChatAbort)


---------------------------------------------------------------------------
\* Vocabulary of the properties below

KnownFlower(fl, id) == \E k \in 1..Len(fl) : fl[k].id = id

StockOf(fl, id) == fl[CHOOSE k \in 1..Len(fl) : fl[k].id = id].stock

\* Total quantity a list of (flowerId, quantity) lines asks of one flower
RECURSIVE RequestedQuantity(_, _)
RequestedQuantity(items, id) ==
    IF items = <<>> THEN 0
    ELSE (IF Head(items).flowerId = id THEN Head(items).quantity ELSE 0)
         + RequestedQuantity(Tail(items), id)

ItemIds(items) == {items[i].flowerId : i \in 1..Len(items)}

\* The body parses and passes validateOrderPayload
PassesValidation(sub) == sub.body.parseOk /\ sub.payload.ok

\* Some line of the payload asks more of a catalog flower than its stock
HasExcessLine(fl, body) ==
    \E i \in 1..Len(body.items) :
        /\ KnownFlower(fl, body.items[i].flowerId)
        /\ body.items[i].quantity > StockOf(fl, body.items[i].flowerId)

\* In a merged item list: 404 when an unknown flower id comes before every
\* line that exceeds stock, else 409
ExpectedRejection(fl, merged) ==
    IF \E u \in 1..Len(merged) :
          /\ ~KnownFlower(fl, merged[u].flowerId)
          /\ \A e \in 1..Len(merged) :
                (/\ KnownFlower(fl, merged[e].flowerId)
                 /\ merged[e].quantity > StockOf(fl, merged[e].flowerId)) => u < e
    THEN 404
    ELSE 409

\* C2 (as claimed): an order that passes payload validation and has a line
\* whose quantity exceeds that flower's stock is answered 409, no stock
\* changes and no order is appended.
C2_ExcessLineAnswered409 ==
    [][\A r \in Requests, sub \in Submissions :
        (/\ pc[r] = "body"
         /\ pc'[r] = "idle"
         /\ PassesValidation(sub)
         /\ HasExcessLine(flowers, sub.body)
         /\ CreateOrder(r, sub))
        => (/\ last'.status = 409
            /\ flowers' = flowers
            /\ orders' = orders)]_vars

\* C2 (amended): such an order is rejected in full, with 409 unless an unknown
\* flower id comes first in the merged item list, and then with 404; no stock
\* changes and no order is appended.
C2_ExcessLineRejectedInFull ==
    [][\A r \in Requests, sub \in Submissions :
        (/\ pc[r] = "body"
         /\ pc'[r] = "idle"
         /\ PassesValidation(sub)
         /\ HasExcessLine(flowers, sub.body)
         /\ CreateOrder(r, sub))
        => (/\ last'.status = ExpectedRejection(flowers, sub.payload.items)
            /\ last'.op = "createOrder"
            /\ flowers' = flowers
            /\ orders' = orders)]_vars

\* C2 witness: an order was answered 409 with the store as it was
C2_Witness ==
    /\ last.op = "createOrder"
    /\ last.status = 409
    /\ last.message = "insufficient stock"
    /\ last.about = NAME_LILY
    /\ flowers = seedFlowers
    /\ orders = <<>>


---------------------------------------------------------------------------
\* C3

\* The body passes validation, names catalog flowers only, and asks of each
\* flower at most its stock
ValidOrder(fl, sub) ==
    /\ PassesValidation(sub)
    /\ \A id \in ItemIds(sub.body.items) :
        /\ KnownFlower(fl, id)
        /\ RequestedQuantity(sub.body.items, id) <= StockOf(fl, id)

\* C3: a valid order is answered 201, takes from each ordered flower exactly
\* the ordered quantity and nothing else from the catalog, and appends one
\* order record whose payment status is "pending".
C3_ValidOrderDecrementsStock ==
    [][\A r \in Requests, sub \in Submissions :
        (/\ pc[r] = "body"
         /\ pc'[r] = "idle"
         /\ ValidOrder(flowers, sub)
         /\ CreateOrder(r, sub))
        => (/\ last'.status = 201
            /\ Len(flowers') = Len(flowers)
            /\ \A k \in 1..Len(flowers) :
                flowers'[k] = [flowers[k] EXCEPT
                    !.stock = @ - RequestedQuantity(sub.body.items, flowers[k].id)]
            /\ Len(orders') = Len(orders) + 1
            /\ SubSeq(orders', 1, Len(orders)) = orders
            /\ orders'[Len(orders')].paymentStatus = PENDING)]_vars

\* C3 witness: a two-line order was accepted and recorded
C3_Witness ==
    /\ last.op = "createOrder"
    /\ last.status = 201
    /\ orders # <<>>
    /\ Len(orders[Len(orders)].items) = 2
    /\ orders[Len(orders)].paymentStatus = PENDING
    /\ StockOf(flowers, "rose-red") = 7
    /\ StockOf(flowers, "pure-lily") = 4

---------------------------------------------------------------------------
\* C10

\* Phone texts that are no phone number: letters, 2 digits among allowed
\* signs, 6 digits, 16 digits, empty
InvalidPhones ==
    {TXT_PHONE_ABC, TXT_PHONE_FEW, TXT_PHONE_SHORT, TXT_PHONE_MANY, <<>>}

ValidNames == {TXT_ANA, TXT_ANA_PAD}
ValidEmails == {TXT_EMAIL, TXT_EMAIL_UP}

\* C10 (as claimed): a payload with an invalid customer phone is answered 400
\* with the message naming customer.phone; no stock changes, no order is recorded.
C10_InvalidPhoneNamesPhone ==
    [][\A r \in Requests, sub \in Submissions :
        (/\ pc[r] = "body"
         /\ pc'[r] = "idle"
         /\ sub.body.parseOk
         /\ sub.body.hasCustomer
         /\ sub.body.customer.phone \in InvalidPhones
         /\ CreateOrder(r, sub))
        => (/\ last'.status = 400
            /\ last'.message = "customer.phone is invalid"
            /\ flowers' = flowers
            /\ orders' = orders)]_vars

\* C10 (amended): such a payload is answered 400, no stock changes and no order
\* is recorded, whatever the items are; the message names customer.phone when
\* the customer's name and email are valid.
C10_InvalidPhoneRejected ==
    [][\A r \in Requests, sub \in Submissions :
        (/\ pc[r] = "body"
         /\ pc'[r] = "idle"
         /\ sub.body.parseOk
         /\ sub.body.hasCustomer
         /\ sub.body.customer.phone \in InvalidPhones
         /\ CreateOrder(r, sub))
        => (/\ last'.status = 400
            /\ (sub.body.customer.name \in ValidNames
                /\ sub.body.customer.email \in ValidEmails)
               => last'.message = "customer.phone is invalid"
            /\ flowers' = flowers
            /\ orders' = orders)]_vars

\* C10 witness: an order was refused for its phone number with the store untouched
C10_Witness ==
    /\ last.op = "createOrder"
    /\ last.status = 400
    /\ last.message = "customer.phone is invalid"
    /\ flowers = seedFlowers
    /\ orders = <<>>

---------------------------------------------------------------------------
\* C9

\* C9: no step changes the id, the line items or the total of a recorded order,
\* and no step removes a recorded order.
C9_LineItemsAreSnapshot ==
    [][\A i \in 1..Len(orders) :
        /\ i <= Len(orders')
        /\ orders'[i].id = orders[i].id
        /\ orders'[i].items = orders[i].items
        /\ orders'[i].total = orders[i].total]_vars

\* C9 witness: a recorded line item whose flower has since been renamed,
\* repriced or deleted
C9_Witness ==
    \E i \in 1..Len(orders) : \E j \in 1..Len(orders[i].items) :
        LET line == orders[i].items[j]
        IN  \/ ~KnownFlower(flowers, line.flowerId)
            \/ /\ KnownFlower(flowers, line.flowerId)
               /\ LET flower == flowers[FindFlower(flowers, line.flowerId)]
                  IN  flower.name # line.name \/ flower.price # line.unitPrice

---------------------------------------------------------------------------
\* C7

\* Total quantity of one flower over all recorded orders
RECURSIVE SoldQuantity(_, _)
SoldQuantity(os, id) ==
    IF os = <<>> THEN 0
    ELSE RequestedQuantity(Head(os).items, id) + SoldQuantity(Tail(os), id)

\* C7 (as claimed): two submissions being handled at the same time can both be
\* accepted although together they ask more than the flower's stock; stated as
\* the behaviour of such a race: a submission that overlapped another and that
\* the stock as constructed would cover is answered 201.
C7_OverlappingOrdersBothAccepted ==
    [][\A r \in Requests, sub \in Submissions :
        (/\ pc[r] = "body"
         /\ pc'[r] = "idle"
         /\ overlapped
         /\ adminOps = 0
         /\ PassesValidation(sub)
         /\ CreateOrderOutcome(seedFlowers, sub).status = 201
         /\ CreateOrder(r, sub))
        => last'.status = 201]_vars

\* C7 (amended): with the in-memory store and no admin write, whatever the
\* interleaving of the submissions, no flower is oversold: every stock is at
\* least 0 and the stock as constructed minus the stock of now is the quantity
\* recorded in orders.
C7_NoOversellInMemory ==
    adminOps = 0 =>
        \A k \in 1..Len(flowers) :
            /\ flowers[k].stock >= 0
            /\ flowers[k].id = seedFlowers[k].id
            /\ seedFlowers[k].stock - flowers[k].stock
                    = SoldQuantity(orders, flowers[k].id)

\* C7 witness: two submissions overlapped, both asked for 8 of the 15 roses;
\* one is recorded, the other was answered 409 for the roses
C7_Witness ==
    /\ overlapped
    /\ adminOps = 0
    /\ InFlight = {}
    /\ Len(orders) = 1
    /\ RequestedQuantity(orders[1].items, "rose-red") = 8
    /\ StockOf(flowers, "rose-red") = 7
    /\ last.op = "createOrder"
    /\ last.status = 409
    /\ last.about = NAME_ROSE

---------------------------------------------------------------------------
\* C1

\* C1: with the in-memory store, every flower's stock is an integer greater
\* than or equal to 0 in every reachable state.
C1_StockNeverNegative ==
    \A k \in 1..Len(flowers) : flowers[k].stock \in Nat

---------------------------------------------------------------------------
\* C4

\* C4: an order is accepted only if, for each distinct flower, the sum of the
\* quantities it asks of that flower is at most the stock, and the recorded
\* order has exactly one line item per distinct flower, carrying that sum.
C4_RepeatedIdsMerged ==
    [][\A r \in Requests, body \in OrderBodies :
        (/\ pc[r] = "body"
         /\ pc'[r] = "idle"
         /\ LegacyCreateOrder(r, body)
         /\ last'.status = 201)
        => (/\ \A id \in ItemIds(body.items) :
                RequestedQuantity(body.items, id) <= StockOf(flowers, id)
            /\ LET lines == orders'[Len(orders')].items
               IN  /\ Len(lines) = Cardinality(ItemIds(body.items))
                   /\ \A j \in 1..Len(lines) :
                        lines[j].quantity
                            = RequestedQuantity(body.items, lines[j].flowerId))]_vars

---------------------------------------------------------------------------
\* C5

\* C5: order creation is atomic with the stock decrement: for every flower the
\* stock as constructed minus the stock of now equals the quantity of that
\* flower over all recorded orders (stated for the states in which no order
\* creation is under way, where the claim asks the least).
C5_StockMatchesRecordedOrders ==
    InFlight = {} =>
        \A k \in 1..Len(flowers) :
            seedFlowers[k].stock - flowers[k].stock
                = SoldQuantity(orders, flowers[k].id)

---------------------------------------------------------------------------
\* C6

\* The number of stock PATCHes of request r the table has applied
PatchesApplied(r) ==
    IF pc[r] = "patch" THEN loc[r].k - 1
    ELSE IF pc[r] \in {"postOrder", "postItems"} THEN Len(loc[r].lines)
    ELSE 0

\* C6: no order creation ends in an error response after it has decremented
\* the stock of some flower.
C6_NoErrorAfterDecrement ==
    [][\A r \in Requests :
        (/\ pc[r] # "idle"
         /\ pc'[r] = "idle"
         /\ last'.status # 201)
        => PatchesApplied(r) = 0]_vars

---------------------------------------------------------------------------
\* C8

\* C8: the stock an order's PATCH writes is the stock that order read minus
\* the quantity of its line, whatever the table holds when the PATCH arrives,
\* and the PATCH touches no other row; so of two orders that read the same
\* stock the later PATCH overwrites the earlier one.
C8_PatchWritesAbsoluteValue ==
    [][\A r \in Requests :
        (/\ pc[r] = "patch"
         /\ \/ pc'[r] = "postOrder"
            \/ pc'[r] = "patch" /\ loc'[r].k = loc[r].k + 1)
        => LET line == loc[r].lines[loc[r].k]
           IN  \A i \in 1..Len(flowers) :
                 flowers'[i] =
                    IF flowers[i].id = line.flowerId
                    THEN [flowers[i] EXCEPT
                            !.stock = StockOf(loc[r].read, line.flowerId)
                                        - line.quantity]
                    ELSE flowers[i]]_vars

\* C8 witness: two orders of 8 roses each are recorded and answered 201 from a
\* stock of 15, and the table holds 7
C8_Witness ==
    /\ InFlight = {}
    /\ last.op = "createOrder"
    /\ last.status = 201
    /\ Len(orders) = 2
    /\ RequestedQuantity(orders[1].items, "rose-red") = 8
    /\ RequestedQuantity(orders[2].items, "rose-red") = 8
    /\ SoldQuantity(orders, "rose-red") > StockOf(seedFlowers, "rose-red")
    /\ StockOf(flowers, "rose-red") = 7

---------------------------------------------------------------------------
\* C11

\* Some line of the payload names a flower id that is not in the catalog
HasUnknownLine(fl, body) ==
    \E i \in 1..Len(body.items) : ~KnownFlower(fl, body.items[i].flowerId)

\* C11 (as claimed): an order that passes payload validation and names a
\* flower id that is not in the catalog is answered 404; no stock changes and
\* no order is appended.
C11_UnknownFlowerAnswered404 ==
    [][\A r \in Requests, sub \in Submissions :
        (/\ pc[r] = "body"
         /\ pc'[r] = "idle"
         /\ PassesValidation(sub)
         /\ HasUnknownLine(flowers, sub.body)
         /\ CreateOrder(r, sub))
        => (/\ last'.status = 404
            /\ flowers' = flowers
            /\ orders' = orders)]_vars

\* C11 (amended): such an order is rejected in full, with 404 unless a line
\* that exceeds stock comes before every unknown id in the merged item list,
\* and then with 409; no stock changes and no order is appended.
C11_UnknownFlowerRejectedInFull ==
    [][\A r \in Requests, sub \in Submissions :
        (/\ pc[r] = "body"
         /\ pc'[r] = "idle"
         /\ PassesValidation(sub)
         /\ HasUnknownLine(flowers, sub.body)
         /\ CreateOrder(r, sub))
        => (/\ last'.op = "createOrder"
            /\ last'.status = ExpectedRejection(flowers, sub.payload.items)
            /\ last'.status = 404 => last'.message = "flower not found"
            /\ flowers' = flowers
            /\ orders' = orders)]_vars

\* C11 witness: an order for the rose, deleted from the catalog before, was
\* answered 404 naming its id, with nothing recorded
C11_Witness ==
    /\ last.op = "createOrder"
    /\ last.status = 404
    /\ last.about = <<"rose-red">>
    /\ ~KnownFlower(flowers, "rose-red")
    /\ orders = <<>>

---------------------------------------------------------------------------
\* C12: the role gate

\* The store a denied request must leave alone, and the handlers' positions
storeVars == <<flowers, orders, notifications, settings, nextId>>

\* A step of an operation gated to admins, taken with cookie c
AdminGatedStep(c) ==
    LET session == getSessionUser(c, now)
    IN  \/ /\ last'.op = "listOrders"
           /\ OrdersGet(session)
        \/ /\ last'.op = "createFlower"
           /\ \E body \in AuthCreateBodies : FlowersPost(session, body)
        \/ /\ last'.op = "updateFlower"
           /\ \E id \in AuthFlowerIds, body \in AuthPatchBodies :
                FlowersPatch(session, id, body)
        \/ /\ last'.op = "deleteFlower"
           /\ \E id \in AuthFlowerIds : FlowersDelete(session, id)
        \/ /\ last'.op = "updateOrderStatus"
           /\ \E id \in AuthOrderIds, st \in AuthStatusInputs : OrdersPatch(session, id, st)
        \/ /\ last'.op = "createNotification"
           /\ \E body \in AuthNotificationBodies : NotificationsPost(session, body)
        \/ /\ last'.op = "deleteNotification"
           /\ \E id \in AuthNotificationIds : NotificationsDelete(session, id)
        \/ /\ last'.op = "updateSettings"
           /\ \E body \in AuthSettingsBodies : SettingsPatch(session, body)

\* A step of the operation gated to admins and customers, taken with cookie c
ShopperGatedStep(c) ==
    /\ orderReqs' = orderReqs + 1
    /\ \E r \in AuthRequests : OrdersPost(r, getSessionUser(c, now))

\* The status the claim expects of the gate: 0 when the request may run
ExpectedGate(c, allowedRoles) ==
    IF ~(c.parts = 3 /\ c.signature = Hmac(AUTH_SECRET, c.payload)
            /\ now <= c.payload.exp)
    THEN 401
    ELSE IF c.payload.role \notin allowedRoles THEN 403
    ELSE 0

GateStatuses == {401, 403, 503}

\* What a gated step with cookie c must look like when the gate's answer is
\* `expected`: denied with that status and nothing touched, or let through
GateRespected(expected) ==
    IF expected # 0
    THEN /\ last'.status = expected
         /\ last'.message = RoleMessage(expected)
         /\ UNCHANGED <<storeVars, pc, loc>>
    ELSE \/ last'.status \notin GateStatuses
         \/ (last' = last /\ \E r \in AuthRequests : pc'[r] = "body")

\* C12 (as stated): a role-gated operation runs only for a request with a valid
\* unexpired token whose role is allowed; every other request is answered 401
\* (no valid session) or 403 (role not allowed), the handler does not run and
\* the store is unchanged.
C12_DeniedWith401Or403 ==
    [][\A c \in PresentedCookies :
        /\ (adminOps' # adminOps \/ last'.op = "listOrders") /\ AdminGatedStep(c)
              => GateRespected(ExpectedGate(c, {"admin"}))
        /\ ShopperGatedStep(c) => GateRespected(ExpectedGate(c, {"admin", "customer"}))
      ]_vars

\* C12 (amended): when authentication is not configured every role-gated
\* request is answered 503; otherwise a request without a valid unexpired token
\* is answered 401 and one whose role is not allowed 403; in all three cases
\* the handler does not run and the store is unchanged, and a request with a
\* valid token of an allowed role is let through.
C12_GateAnswers503Or401Or403 ==
    [][\A c \in PresentedCookies :
        /\ (adminOps' # adminOps \/ last'.op = "listOrders") /\ AdminGatedStep(c)
              => GateRespected(IF authConfigured THEN ExpectedGate(c, {"admin"}) ELSE 503)
        /\ ShopperGatedStep(c) =>
              GateRespected(IF authConfigured
                            THEN ExpectedGate(c, {"admin", "customer"}) ELSE 503)
      ]_vars

\* A signed-in customer was refused the creation of a flower
C12_Witness ==
    /\ authConfigured
    /\ last.op = "createFlower"
    /\ last.status = 403
    /\ \E t \in issued : t.payload.role = "customer" /\ now <= t.payload.exp
    /\ flowers = seedFlowers

---------------------------------------------------------------------------
\* C13: role rules

\* The role a cookie stands for: that of a token the server issued and that
\* has not expired, "none" for anything else
RoleOf(c) ==
    IF c \in issued /\ now <= c.payload.exp THEN c.payload.role ELSE "none"

LiveTokenOf(roles) ==
    \E t \in issued : t.payload.role \in roles /\ now <= t.payload.exp

\* A step that changes what only admins may change: the catalog other than by
\* an order's stock decrement, a recorded order, notifications, settings
AdminChange ==
    \/ flowers' # flowers /\ orders' = orders
    \/ orders' # orders /\ Len(orders') = Len(orders)
    \/ notifications' # notifications
    \/ settings' # settings

---------------------------------------------------------------------------
\* C14: expiry and signature of session tokens

SignatureMatches(c) == c.parts = 3 /\ c.signature = Hmac(AUTH_SECRET, c.payload)

\* C14: a token issued at time t carries expiry t + 86400; it is accepted by
\* verifyToken, and by requireRole, at every time up to and including its
\* expiry and rejected (no session, 401) at every later time; a token whose
\* signature does not match its content is never accepted.
C14_TokensExpireAndAreSigned ==
    /\ [](\A c \in PresentedCookies :
            /\ c \in issued => (verifyToken(c, now) <=> now <= c.payload.exp)
            /\ (c.parts = 3 /\ ~SignatureMatches(c)) =>
                  (~verifyToken(c, now) /\ getSessionUser(c, now) = "none"))
    /\ [][/\ \A c \in issued' \ issued : c.payload.exp = now + SESSION_TTL_SECONDS
          /\ \A c \in issued :
                (last'.op = "listOrders" /\ OrdersGet(getSessionUser(c, now))) =>
                    IF now <= c.payload.exp
                    THEN last'.status # 401
                    ELSE last'.status = 401
         ]_vars

\* An admin's token, past its expiry, was answered 401 on listing the orders
C14_Witness ==
    /\ last.op = "listOrders"
    /\ last.status = 401
    /\ issued # {}
    /\ \A t \in issued : t.payload.role = "admin" /\ t.payload.exp < now

---------------------------------------------------------------------------
\* C15: payment method and payment status of recorded orders

\* The status a PATCH body names, letter case and surrounding blanks aside
NamedStatus(statusInput) == ToLowerCase(Trim(statusInput))

OrderIds(os) == {os[i].id : i \in 1..Len(os)}

\* C15: every recorded order has payment method cash or paypal and payment
\* status pending, paid or failed; an order is created pending; the status of a
\* recorded order changes only through an admin PATCH naming one of the three
\* statuses, which sets it on that order alone; a PATCH naming any other status
\* (400) or an unknown order id (404) changes no order.
C15_PaymentStatusOnlyByAdminPatch ==
    /\ [](\A i \in 1..Len(orders) :
            /\ orders[i].paymentMethod \in {CASH, PAYPAL}
            /\ orders[i].paymentStatus \in {PENDING, PAID, FAILED})
    /\ [][/\ Len(orders') > Len(orders) =>
                /\ orders'[Len(orders')].paymentStatus = PENDING
                /\ SubSeq(orders', 1, Len(orders)) = orders
          /\ (\E i \in 1..Len(orders) : orders'[i] # orders[i]) =>
                (last'.op = "updateOrderStatus" /\ last'.status = 200)
          /\ \A session \in Sessions, id \in OrderIdInputs, st \in StatusInputs :
                ( /\ last'.op = "updateOrderStatus"
                  /\ OrdersPatch(session, id, st) ) =>
                    IF session # "admin"
                    THEN last'.status \in {401, 403} /\ orders' = orders
                    ELSE IF NamedStatus(st) \notin {PENDING, PAID, FAILED}
                    THEN last'.status = 400 /\ orders' = orders
                    ELSE IF id \notin OrderIds(orders)
                    THEN last'.status = 404 /\ orders' = orders
                    ELSE /\ last'.status = 200
                         /\ Len(orders') = Len(orders)
                         /\ \A i \in 1..Len(orders) :
                               IF orders[i].id = id
                               THEN orders'[i] = [orders[i] EXCEPT
                                                    !.paymentStatus = NamedStatus(st)]
                               ELSE orders'[i] = orders[i]
         ]_vars

\* An admin PATCH marked the first of two recorded orders failed
C15_Witness ==
    /\ Len(orders) = 2
    /\ orders[1].paymentStatus = FAILED
    /\ orders[2].paymentStatus = PENDING
    /\ last.op = "updateOrderStatus"
    /\ last.status = 200

---------------------------------------------------------------------------
\* C16: flower creation

\* What the body asks for, read as the claim reads it
PriceIsPositiveNumber(body) ==
    "price" \in body.has /\ body.price # NotFinite /\ body.price > 0

StockIsIntegerInRange(body) ==
    "stock" \in body.has =>
        /\ body.stock # NotFinite
        /\ body.stock % 1000 = 0
        /\ body.stock >= 0
        /\ body.stock <= MAX_STOCK * 1000

OccasionIsAllowed(body) ==
    "occasion" \in body.has => ToLowerCase(Trim(body.occasion)) \in ALLOWED_OCCASIONS

\* The flower appended carries the values that were validated: the name, a
\* positive price equal to the requested one to the cent, the stock, the
\* occasion
CarriesValidatedValues(flower, body) ==
    /\ flower.name = Trim(body.name)
    /\ flower.price > 0
    /\ flower.price * 10 - body.price \in -5..5
    /\ flower.stock * 1000 = (IF "stock" \in body.has THEN body.stock ELSE 0)
    /\ flower.occasion = (IF "occasion" \in body.has
                          THEN ToLowerCase(Trim(body.occasion)) ELSE OCC_GENERAL)

CreateFlowerAsClaimed(body) ==
    /\ ~(PriceIsPositiveNumber(body) /\ StockIsIntegerInRange(body)
            /\ OccasionIsAllowed(body)) => last'.status = 400
    /\ last'.status \in {400, 201}
    /\ last'.status = 400 => flowers' = flowers
    /\ last'.status = 201 =>
          /\ Len(flowers') = Len(flowers) + 1
          /\ SubSeq(flowers', 1, Len(flowers)) = flowers
          /\ CarriesValidatedValues(flowers'[Len(flowers')], body)

\* C16: flower creation rejects with 400 a price that is not a finite number
\* greater than 0, a stock that is not an integer in 0..10000 and an occasion
\* outside the allowed set; a rejected creation leaves the catalog unchanged,
\* and an accepted one appends exactly one flower with the validated values.
C16_CreateFlowerValidated ==
    [][\A body \in CreateBodies :
        (last'.op = "createFlower" /\ FlowersPost("admin", body))
            => CreateFlowerAsClaimed(body)]_vars

---------------------------------------------------------------------------
\* C17: flower update

\* A field the body has and whose value is not valid, read as the claim reads it
HasInvalidField(body) ==
    \/ "name" \in body.has /\ Len(Trim(body.name)) < 2
    \/ "price" \in body.has /\ (body.price = NotFinite \/ body.price <= 0)
    \/ "occasion" \in body.has /\ ToLowerCase(Trim(body.occasion)) \notin ALLOWED_OCCASIONS
    \/ "image" \in body.has /\ Trim(body.image) # <<>>
          /\ UrlProtocol(Trim(body.image)) \notin IMAGE_PROTOCOLS
    \/ "imageFocusX" \in body.has /\ body.imageFocusX # NotFinite
          /\ body.imageFocusX \notin 0..100000
    \/ "imageFocusY" \in body.has /\ body.imageFocusY # NotFinite
          /\ body.imageFocusY \notin 0..100000
    \/ "stock" \in body.has
          /\ (body.stock = NotFinite \/ body.stock % 1000 # 0
                \/ body.stock \notin 0..(MAX_STOCK * 1000))

\* Every field the body has carries the validated new value, every other field
\* is the one of the flower before
PatchedAsRequested(before, after, body) ==
    /\ after.id = before.id
    /\ after.createdAt = before.createdAt
    /\ after.name = (IF "name" \in body.has THEN Trim(body.name) ELSE before.name)
    /\ after.description = (IF "description" \in body.has
                            THEN Trim(body.description) ELSE before.description)
    /\ IF "price" \in body.has
       THEN after.price > 0 /\ after.price * 10 - body.price \in -5..5
       ELSE after.price = before.price
    /\ after.occasion = (IF "occasion" \in body.has
                         THEN ToLowerCase(Trim(body.occasion)) ELSE before.occasion)
    /\ after.image = (IF "image" \in body.has THEN Trim(body.image) ELSE before.image)
    /\ IF "imageFocusX" \in body.has
       THEN after.imageFocusX \in 0..10000
       ELSE after.imageFocusX = before.imageFocusX
    /\ IF "imageFocusY" \in body.has
       THEN after.imageFocusY \in 0..10000
       ELSE after.imageFocusY = before.imageFocusY
    /\ after.stock * 1000 = (IF "stock" \in body.has THEN body.stock
                             ELSE before.stock * 1000)

UpdateFlowerAsClaimed(id, body) ==
    IF HasInvalidField(body) \/ body.has \cap RecognisedFields = {}
    THEN last'.status = 400 /\ flowers' = flowers
    ELSE IF \A i \in 1..Len(flowers) : flowers[i].id # id
    THEN last'.status = 404 /\ flowers' = flowers
    ELSE /\ last'.status = 200
         /\ Len(flowers') = Len(flowers)
         /\ \A i \in 1..Len(flowers) :
               IF flowers[i].id = id
               THEN PatchedAsRequested(flowers[i], flowers'[i], body)
               ELSE flowers'[i] = flowers[i]

\* C17: a flower update applies a partial patch: exactly the fields present in
\* the body take the validated new value, every other field of that flower
\* (id and createdAt included) and every other flower stay unchanged; a patch
\* with an invalid field or without a recognised field is answered 400 and
\* changes nothing; an unknown id is answered 404.
C17_PartialPatchApplied ==
    [][\A id \in AdminFlowerIds, body \in PatchBodies :
        (last'.op = "updateFlower" /\ FlowersPatch("admin", id, body))
            => UpdateFlowerAsClaimed(id, body)]_vars

---------------------------------------------------------------------------
\* C18: flower delete

FlowerIds(fl) == {fl[i].id : i \in 1..Len(fl)}

\* The list without the flowers of that id
Without(fl, id) == SelectSeq(fl, LAMBDA f : f.id # id)

\* C18: deleting a flower by id removes exactly the flower with that id and
\* returns the removed record, leaving the other flowers and the recorded
\* orders unchanged; deleting an id that is not in the catalog (a second delete
\* of the same id included) is answered 404 and changes nothing.
C18_DeleteRemovesExactlyOne ==
    [][\A id \in AdminFlowerIds :
        (last'.op = "deleteFlower" /\ FlowersDelete("admin", id)) =>
            /\ orders' = orders
            /\ IF id \in FlowerIds(flowers)
               THEN /\ last'.status = 200
                    /\ Len(flowers') = Len(flowers) - 1
                    /\ flowers' = Without(flowers, id)
                    /\ \E i \in 1..Len(flowers) :
                          flowers[i].id = id /\ last'.about = flowers[i].name
               ELSE /\ last'.status = 404
                    /\ flowers' = flowers
      ]_vars

\* rose-red was deleted, and a second delete of it was answered 404
C18_Witness ==
    /\ adminOps = 2
    /\ last.op = "deleteFlower"
    /\ last.status = 404
    /\ "rose-red" \notin FlowerIds(flowers)
    /\ Len(flowers) = Len(seedFlowers) - 1

---------------------------------------------------------------------------
\* C19: chat falls back to the local reply

\* The provider answered with status ok, a body that parses, and some text
\* that is not blank
ReturnedText(answer) ==
    /\ answer.ok
    /\ answer.jsonOk
    /\ \/ \E i \in 1..Len(answer.output_text) : answer.output_text[i] \notin Whitespace
       \/ \E k \in 1..Len(answer.parts) :
             \E i \in 1..Len(answer.parts[k]) : answer.parts[k][i] \notin Whitespace

AnsweredLocally ==
    /\ chat'.pc = "idle"
    /\ chat'.status = 200
    /\ chat'.source = "local"
    /\ chat'.reply.kind \notin {"none", "openai"}
    /\ last'.op = "chat"
    /\ last'.status = 200

---------------------------------------------------------------------------
\* C20: the pricing reply

PricingRelated(message) == Matches(ToLowerCase(message), KW_PRICING)

\* A word of a reply that is tried before the pricing words
EarlierKeyword(message) ==
    Matches(ToLowerCase(message), KW_GREETING \cup KW_DELIVERY \cup KW_PAYMENT)

\* The reply is the pricing reply for that catalog: it names a flower in stock
\* than which no flower in stock is cheaper, or says that nothing is in stock
IsPricingReply(reply, fl) ==
    IF \E i \in 1..Len(fl) : fl[i].stock > 0
    THEN /\ reply.kind = "pricing"
         /\ Len(reply.picks) = 1
         /\ \E i \in 1..Len(fl) :
               /\ fl[i].stock > 0
               /\ reply.picks[1] = [name |-> fl[i].name, price |-> fl[i].price]
               /\ \A j \in 1..Len(fl) : fl[j].stock > 0 => fl[i].price <= fl[j].price
    ELSE reply.kind = "pricing-no-stock"

\* C20 (as stated): with no external service configured, a message that
\* contains one of the words price, cost, cheap, budget, afford is answered 200
\* with source "local" and the pricing reply.
C20_PricingWordsGetPricingReply ==
    [][\A body \in ChatBodies :
        ( /\ ~chat.configured
          /\ body.parseOk
          /\ ChatPayloadError(body) = ""
          /\ PricingRelated(body.message)
          /\ ChatPost(body) ) =>
            /\ chat'.status = 200
            /\ chat'.source = "local"
            /\ IsPricingReply(chat'.reply, flowers)
      ]_vars

\* C20 (amended): with no external service configured, a message that contains
\* one of the pricing words is answered 200 with source "local"; the reply is
\* the pricing reply when the message contains none of the greeting, delivery
\* and payment words, which are tried first and as substrings, and the
\* greeting, delivery or payment reply when it contains one.
C20_PricingReplyUnlessEarlierKeyword ==
    [][\A body \in ChatBodies :
        ( /\ ~chat.configured
          /\ body.parseOk
          /\ ChatPayloadError(body) = ""
          /\ PricingRelated(body.message)
          /\ ChatPost(body) ) =>
            /\ chat'.status = 200
            /\ chat'.source = "local"
            /\ IF EarlierKeyword(body.message)
               THEN chat'.reply.kind \in {"greeting", "delivery", "payment"}
               ELSE IsPricingReply(chat'.reply, flowers)
      ]_vars

\* "What is your cheapest bouquet?" on the seed catalog was answered locally
\* with the tulips, the cheapest flower in stock
C20_Witness ==
    /\ ~chat.configured
    /\ flowers = seedFlowers
    /\ chat.message = Trim(MSG_TEST)
    /\ chat.status = 200
    /\ chat.source = "local"
    /\ chat.reply.kind = "pricing"
    /\ chat.reply.picks = <<[name |-> NAME_TULIP, price |-> 2450]>>

---------------------------------------------------------------------------
\* C21

\* The message of the body is empty or only whitespace
BlankMessage(body) == \A i \in 1..Len(body.message) : body.message[i] \in Whitespace

\* C21: a chat request whose message is empty or only whitespace is answered
\* 400 "message is required"; no catalog is read (no reply is built), no
\* external call is started, and the store is unchanged.
C21_BlankChatMessageRejected ==
    [][\A body \in ChatBodies :
        ( /\ body.parseOk
          /\ BlankMessage(body)
          /\ ChatPost(body) ) =>
            /\ last' = Response("chat", 400, "message is required")
            /\ chat'.status = 400
            /\ chat'.pc = "idle"
            /\ chat'.source = "none"
            /\ chat'.reply = NoReply
            /\ UNCHANGED <<flowers, orders, notifications, settings>>
      ]_vars

\* A blank message was rejected while the external service is configured
C21_Witness ==
    /\ chat.configured
    /\ chat.count > 0
    /\ chat.pc = "idle"
    /\ last = Response("chat", 400, "message is required")

---------------------------------------------------------------------------
\* C22

\* A request to the remote table fails while request r creates an order
RemoteRequestFails(r) ==
    \/ DbReadFlowers(r, FALSE)
    \/ DbPatchStock(r, FALSE)
    \/ DbPostOrder(r, FALSE)
    \/ DbPostItems(r, FALSE)

\* C22: a remote-table request that fails during order creation is answered
\* with status 500, and a 400, 404 or 409 is answered only for a validation
\* error, an unknown flower or a stock conflict.
C22_UnexpectedFailureAnswered500 ==
    [][\A r \in Requests :
        RemoteRequestFails(r) =>
            /\ last'.op = "createOrder"
            /\ last'.status = 500
            /\ last'.status \notin {400, 404, 409}
      ]_vars

---------------------------------------------------------------------------
\* C23

\* What the role gate of GET /orders answers to a token that is honoured
\* until its expiry time
AnswerUntilExpiry(token) ==
    IF token.payload.exp < now THEN 401
    ELSE IF token.payload.role = "admin" THEN 200
    ELSE 403

\* C23: logout changes nothing on the server, and a token handed out before a
\* logout is still accepted by getSessionUser and requireRole on every later
\* request that presents it, until its expiry time.
C23_LogoutDoesNotRevoke ==
    /\ [][Logout => UNCHANGED <<issued, users, now, authConfigured>>]_vars
    /\ [](\A t \in loggedOut :
            /\ t \in issued
            /\ verifyToken(t, now) = ~(t.payload.exp < now))
    /\ [][\A t \in loggedOut :
            /\ (last'.op = "session" /\ SessionGet(getSessionUser(t, now))) =>
                    last'.message = IF t.payload.exp < now THEN "none"
                                    ELSE t.payload.role
            /\ (last'.op = "listOrders" /\ OrdersGet(getSessionUser(t, now))) =>
                    last'.status = AnswerUntilExpiry(t)
      ]_vars

\* An admin signed in and logged out; a later GET /orders that presents the
\* token was answered 200
C23_Witness ==
    /\ \E t \in loggedOut : t.payload.role = "admin" /\ ~(t.payload.exp < now)
    /\ last = Response("listOrders", 200, "")

---------------------------------------------------------------------------
\* C24

\* The login is one with the configured admin email and password
AdminLogin(body) ==
    /\ body.parseOk
    /\ normalizeEmail(body.email) = getConfiguredUsers[1].email
    /\ body.password = getConfiguredUsers[1].password

\* C24: every user registerCustomer creates has role customer whatever the
\* body contains, and a token with role admin is handed out only by a login
\* with the configured admin email and password.
C24_SignupNeverGivesAdmin ==
    /\ [](\A i \in 1..Len(users) : users[i].role = "customer")
    /\ [](\A t \in issued :
            t.payload.role = "admin" => t.payload.sub = getConfiguredUsers[1].id)
    /\ [][\A t \in issued' \ issued :
            t.payload.role = "admin" =>
                \E body \in AccountLoginInputs : AdminLogin(body) /\ Login(body)
      ]_vars

\* A signup whose body asks for role admin was accepted, the user is a
\* customer and so is the token handed out; the admin has signed in as well
C24_Witness ==
    /\ \E i \in 1..Len(users) :
            /\ users[i].name = TXT_EVE
            /\ users[i].role = "customer"
            /\ \E t \in issued : t.payload.sub = users[i].id /\ t.payload.role = "customer"
    /\ \E t \in issued : t.payload.role = "admin"

---------------------------------------------------------------------------
\* C25

\* The emails of the configured accounts and of the registered users
ConfiguredEmails == {getConfiguredUsers[i].email : i \in 1..Len(getConfiguredUsers)}
RegisteredEmails == {users[i].email : i \in 1..Len(users)}

\* The registered emails are normalised, pairwise distinct, and none is the
\* email of a configured account
EmailsDistinct ==
    /\ \A i \in 1..Len(users) : users[i].email = normalizeEmail(users[i].email)
    /\ \A i, j \in 1..Len(users) : users[i].email = users[j].email => i = j
    /\ RegisteredEmails \cap ConfiguredEmails = {}

\* The normalised email of the body is already the email of an account
EmailTaken(body) ==
    normalizeEmail(body.email) \in ConfiguredEmails \cup RegisteredEmails

\* The checks registerCustomer makes before it looks the email up
NameAndPasswordPass(body) ==
    /\ Len(Trim(body.name)) >= NameMinLen
    /\ Len(body.password) >= PasswordMinLen

\* C25 (as stated): the registered emails stay distinct, and a signup whose
\* normalised email already exists is answered 400 "email already exists",
\* adds no user and hands out no cookie.
C25_TakenEmailNamesEmail ==
    /\ []EmailsDistinct
    /\ [][(last'.op = "signup" /\ ticks' = ticks) => \A body \in SignupBodies :
            ( /\ body.parseOk
              /\ EmailTaken(body)
              /\ Signup(body) ) =>
                /\ last' = Response("signup", 400, "email already exists")
                /\ UNCHANGED <<users, issued>>
      ]_vars

\* C25 (amended): the registered emails stay distinct, and a signup whose
\* normalised email already exists adds no user and hands out no cookie; with
\* authentication configured it is answered 400, with "email already exists"
\* when its name and password pass their checks and with the message of the
\* name or password check otherwise; without, it is answered 503.
C25_TakenEmailRejected ==
    /\ []EmailsDistinct
    /\ [][(last'.op = "signup" /\ ticks' = ticks) => \A body \in SignupBodies :
            ( /\ body.parseOk
              /\ EmailTaken(body)
              /\ Signup(body) ) =>
                /\ UNCHANGED <<users, issued>>
                /\ last'.status = IF authConfigured THEN 400 ELSE 503
                /\ (authConfigured /\ NameAndPasswordPass(body))
                        => last'.message = "email already exists"
                /\ (authConfigured /\ ~NameAndPasswordPass(body))
                        => last'.message \in {"name must be at least 2 characters",
                                              "password must be at least 8 characters"}
      ]_vars

\* Two customers are registered and a further signup, with the email of one
\* of the accounts, was answered 400 "email already exists"
C25_Witness ==
    /\ Len(users) = 2
    /\ last = Response("signup", 400, "email already exists")

---------------------------------------------------------------------------
\* C26

\* C26: every line item of every recorded order has a quantity between 1 and
\* 100, the per-item limit of normalizeCartItems, also when the payload
\* repeats a flower id.
C26_LineQuantityWithinLimit ==
    \A i \in 1..Len(orders) : \A k \in 1..Len(orders[i].items) :
        orders[i].items[k].quantity \in 1..MaxItemQuantity

---------------------------------------------------------------------------
\* C27

\* No request is being handled and no write is queued or running
FileQuiescent ==
    /\ \A r \in Requests : disk.req[r].pc = "idle"
    /\ \A k \in 1..Len(disk.jobs) : disk.jobs[k].state \notin {"queued", "writing"}

\* C27: once all queued writes have completed, every order answered 201 is in
\* the data file and the stock in the file is the initial stock less the
\* quantities of all accepted orders, also when two requests overlapped.
C27_AcceptedOrdersPersisted ==
    FileQuiescent =>
        /\ \A i \in 1..Len(disk.accepted) :
                \E j \in 1..Len(disk.file.orders) :
                    disk.file.orders[j].id = disk.accepted[i].id
        /\ \A f \in 1..Len(seedFlowers) :
                disk.file.flowers[f].stock =
                    seedFlowers[f].stock - SoldQuantity(disk.accepted, seedFlowers[f].id)

---------------------------------------------------------------------------
\* C28

\* The links whose write has started
Started(jobs) == {k \in 1..Len(jobs) : jobs[k].state \in {"writing", "done", "failed"}}

\* C28: writes run one at a time and in the order writeData was called, each
\* after every earlier one has completed; once a write has failed no later
\* write is performed, and every later call of writeData is rejected.
C28_WritesSerialisedAndFailureSticks ==
    /\ [](Cardinality({k \in 1..Len(disk.jobs) : disk.jobs[k].state = "writing"}) <= 1)
    /\ [](\A k \in Started(disk.jobs) : \A j \in 1..(k - 1) : disk.jobs[j].state = "done")
    /\ [](\A k \in 1..Len(disk.jobs) :
            disk.jobs[k].state = "failed" =>
                /\ disk.rejected
                /\ \A j \in (k + 1)..Len(disk.jobs) : disk.jobs[j].state = "rejected")
    /\ [][\A k \in 1..Len(disk.jobs) :
            /\ disk.jobs[k].state = "rejected" => disk'.jobs[k].state = "rejected"
            /\ disk.jobs[k].state \in {"done", "failed"} => disk'.jobs[k] = disk.jobs[k]
            /\ disk.rejected => disk'.rejected /\ disk'.file = disk.file
      ]_vars

\* A write failed with another one queued behind it, and writeData was called
\* again afterwards: neither of the two later writes ran
C28_Witness ==
    /\ Len(disk.jobs) = 3
    /\ disk.jobs[1].state = "failed"
    /\ disk.jobs[2].state = "rejected"
    /\ disk.jobs[3].state = "rejected"
    /\ disk.file = DiskIdle.file

---------------------------------------------------------------------------
\* C29

\* The entries of the cart are within the displayed stock of their flower
CartWithinDisplayedStock ==
    \A i \in 1..Len(client.cart) :
        client.cart[i].flowerId \notin client.moved =>
            /\ IsRendered(client.cart[i].flowerId)
            /\ client.cart[i].quantity >= 1
            /\ client.cart[i].quantity <= Rendered(client.cart[i].flowerId).stock

---------------------------------------------------------------------------
\* C30

\* The order awaited was built within the stock of the catalog the server has,
\* and the client displays that catalog
BuiltWithinCatalog ==
    /\ client.seen.flowers = DisplayedFlowers(flowers)
    /\ \A i \in 1..Len(client.sent) :
            /\ FindFlower(flowers, client.sent[i].flowerId) # 0
            /\ client.sent[i].quantity >= 1
            /\ client.sent[i].quantity
                    <= flowers[FindFlower(flowers, client.sent[i].flowerId)].stock

\* C30: an order the client submits from a cart built with addToCart and
\* adjustCart, each quantity between 1 and the stock of its flower, with valid
\* customer details and the catalog unchanged, is answered 201 by the server.
C30_ClientOrderAccepted ==
    [][(ClientOrderServed(TRUE) /\ BuiltWithinCatalog) => client'.answer = 201]_vars

====
